---- MODULE Spec2Model ----
(***************************************************************************)
(* A model of the SNTP client package ntp (src/ntp.go).                    *)
(*                                                                         *)
(* src/ntp.go holds two revisions of the package.  The definitions that    *)
(* keep the source's names model the later revision (lines 484-962); the   *)
(* definitions with the suffix V1 model the earlier revision (lines 1-482) *)
(* where it differs (rtt without the clamp, rootDistance without the       *)
(* MINDISP floor, causalityViolation).                                     *)
(*                                                                         *)
(* Go's uint64 and int64 (time.Duration) values are kept at their width:   *)
(* a 64-bit word is a tuple of WordBytes bytes, least significant first,   *)
(* and every operation on words wraps modulo 2^64 as the Go operation      *)
(* does.  A time.Time is modelled by its distance from ntpEpoch in         *)
(* nanoseconds (a signed word); every instant of the model comes from      *)
(* ntpTime.Time or from toNtpTime's argument range, where Time.Sub does    *)
(* not saturate.                                                           *)
(***************************************************************************)
EXTENDS Integers, Sequences, FiniteSets, TLC

\* ------------------------------------------------------------------------
\* 64-bit words: Go's uint64 / int64 arithmetic
\* ------------------------------------------------------------------------

WordBytes == 8

ByteBase == 256

RECURSIVE BytesOf(_, _)
\* the k low bytes of the natural number n, least significant first
BytesOf(n, k) ==
    IF k = 0 THEN <<>> ELSE <<n % ByteBase>> \o BytesOf(n \div ByteBase, k - 1)

\* uint64(n) for a natural number n < 2^31
U64(n) == BytesOf(n, WordBytes)

Zero64 == U64(0)

\* the element of a one-element set; the operators on words below take their
\* operands through { e(a) : a \in {x} }, so that an operand is evaluated once
\* however often its bytes are read
Val(S) == CHOOSE r \in S : TRUE

RECURSIVE AddFrom(_, _, _, _)
AddFrom(x, y, i, c) ==
    IF i > WordBytes THEN <<>>
    ELSE Val({ <<s % ByteBase>> \o AddFrom(x, y, i + 1, s \div ByteBase) :
                 s \in {x[i] + y[i] + c} })

\* x + y, wrapping modulo 2^64
Add64(x, y) == Val({ AddFrom(a, b, 1, 0) : a \in {x}, b \in {y} })

\* a word given as a function on 1..WordBytes, as the tuple of its bytes
Word(f) == SubSeq(f, 1, WordBytes)

\* ^x (bitwise complement)
Not64(x) == Val({ Word([i \in 1..WordBytes |-> (ByteBase - 1) - a[i]]) : a \in {x} })

\* -x in two's complement
Neg64(x) == Add64(Not64(x), U64(1))

\* x - y, wrapping modulo 2^64
Sub64(x, y) == Add64(x, Neg64(y))

RECURSIVE MulFrom(_, _, _, _)
MulFrom(x, m, i, c) ==
    IF i > WordBytes THEN <<>>
    ELSE Val({ <<p % ByteBase>> \o MulFrom(x, m, i + 1, p \div ByteBase) :
                 p \in {x[i] * m + c} })

\* x << (8 * k) for 0 <= k <= WordBytes, wrapping
ShlBytes(x, k) ==
    Val({ Word([i \in 1..WordBytes |-> IF i <= k THEN 0 ELSE a[i - k]]) : a \in {x} })

\* x >> (8 * k), logical
ShrBytes(x, k) ==
    Val({ Word([i \in 1..WordBytes |-> IF i + k <= WordBytes THEN a[i + k] ELSE 0]) :
            a \in {x} })

RECURSIVE MulBy(_, _, _)
\* x * m, wrapping modulo 2^64, the multiplier taken byte by byte from position k
MulBy(x, m, k) ==
    IF m = 0 \/ k >= WordBytes THEN Zero64
    ELSE Val({ Add64(ShlBytes(MulFrom(x, n % ByteBase, 1, 0), k),
                     MulBy(x, n \div ByteBase, k + 1)) : n \in {m} })

\* x * m for a word x and a natural number m < 2^31
Mul64(x, m) == Val({ MulBy(a, m, 0) : a \in {x} })

RECURSIVE DivFrom(_, _, _, _)
\* long division by d < 2^23, from byte i down; the bytes come most significant first
DivFrom(x, d, i, r) ==
    IF i = 0 THEN <<>>
    ELSE Val({ <<a \div d>> \o DivFrom(x, d, i - 1, a % d) : a \in {r * ByteBase + x[i]} })

Reverse(s) == Val({ Word([i \in 1..WordBytes |-> a[WordBytes + 1 - i]]) : a \in {s} })

DivSmall(x, d) == Val({ Reverse(DivFrom(a, d, WordBytes, 0)) : a \in {x} })

\* the largest divisor the byte-wise long division takes in one pass
SmallDivisor == 128 * 65536

RECURSIVE Div64(_, _)
\* x / d (unsigned, truncating) for 0 < d < 2^31; an even divisor too large for
\* one pass is divided out in two passes: floor(floor(x/2)/(d/2)) = floor(x/d)
Div64(x, d) ==
    IF d < SmallDivisor THEN DivSmall(x, d)
    ELSE Div64(DivSmall(x, 2), d \div 2)

RECURSIVE ByteOr(_, _)
ByteOr(a, b) ==
    IF a = 0 THEN b
    ELSE IF b = 0 THEN a
    ELSE (IF a % 2 = 1 \/ b % 2 = 1 THEN 1 ELSE 0) + 2 * ByteOr(a \div 2, b \div 2)

\* x | y
Or64(x, y) == Val({ Word([i \in 1..WordBytes |-> ByteOr(a[i], b[i])]) : a \in {x}, b \in {y} })

\* x & 0xffffffff
Low32(x) == Val({ Word([i \in 1..WordBytes |-> IF i <= 4 THEN a[i] ELSE 0]) : a \in {x} })

\* x & 0xffff
Low16(x) == Val({ Word([i \in 1..WordBytes |-> IF i <= 2 THEN a[i] ELSE 0]) : a \in {x} })

\* the sign of x read as int64
IsNeg(x) == x[WordBytes] >= ByteBase \div 2

RECURSIVE LtFrom(_, _, _)
LtFrom(x, y, i) ==
    IF i = 0 THEN FALSE
    ELSE IF x[i] # y[i] THEN x[i] < y[i]
    ELSE LtFrom(x, y, i - 1)

\* x < y as uint64
ULt(x, y) == Val({ LtFrom(a, b, WordBytes) : a \in {x}, b \in {y} })

\* x < y as int64
SLt(x, y) ==
    Val({ IF IsNeg(a) # IsNeg(b) THEN IsNeg(a) ELSE ULt(a, b) : a \in {x}, b \in {y} })

SGt(x, y) == SLt(y, x)

SLe(x, y) == ~SLt(y, x)

\* x / n as int64 (Go truncates toward zero), n > 0
SDiv(x, n) ==
    Val({ IF IsNeg(a) THEN Neg64(Div64(Neg64(a), n)) ELSE Div64(a, n) : a \in {x} })

\* ------------------------------------------------------------------------
\* Constants of the package
\* ------------------------------------------------------------------------

MaxStratum == 16

LeapNoWarning == 0

LeapAddSecond == 1

LeapDelSecond == 2

LeapNotInSync == 3

defaultNtpVersion == 4

nanoPerSec == 1000000000

\* time.Second, time.Millisecond as Durations
Second == U64(nanoPerSec)

Millisecond == U64(1000000)

\* n * time.Second for a natural number n
Seconds(n) == Mul64(U64(n), nanoPerSec)

maxPollInterval == Seconds(131072)

minDispersion == Mul64(Millisecond, 10)

maxDispersion == Seconds(16)

\* ------------------------------------------------------------------------
\* Fixed-point time codec
\* ------------------------------------------------------------------------

\* ntpTime.Duration
ntpDuration(t) ==
    LET sec  == Mul64(ShrBytes(t, 4), nanoPerSec)
        frac == ShrBytes(Mul64(Low32(t), nanoPerSec), 4)
    IN  Add64(sec, frac)

\* ntpTime.Time: the instant as nanoseconds since ntpEpoch
ntpTimeOf(t) == ntpDuration(t)

\* Time.Sub for instants that are at most 2^63 ns apart
TimeSub(t, u) == Sub64(t, u)

\* Time.Before
TimeBefore(t, u) == SLt(t, u)

\* toNtpTime with the fraction rounded down instead of up
toNtpTimeFloor(t) ==
    LET sec  == Div64(t, nanoPerSec)
        rem  == Sub64(t, Mul64(sec, nanoPerSec))
        frac == Div64(ShlBytes(rem, 4), nanoPerSec)
    IN  Or64(ShlBytes(sec, 4), frac)

toNtpTime(t) ==
    LET nsec == t
        sec  == Div64(nsec, nanoPerSec)
        rem  == Sub64(nsec, Mul64(sec, nanoPerSec))
        frac == Div64(Add64(ShlBytes(rem, 4), U64(nanoPerSec - 1)), nanoPerSec)
    IN  Or64(ShlBytes(sec, 4), frac)

\* ntpTimeShort.Duration; the 32-bit value is widened to uint64 first
shortDuration(t) ==
    LET sec  == Mul64(ShrBytes(t, 2), nanoPerSec)
        frac == ShrBytes(Mul64(Low16(t), nanoPerSec), 2)
    IN  Add64(sec, frac)

\* ------------------------------------------------------------------------
\* Header byte and interval helpers
\* ------------------------------------------------------------------------

RECURSIVE ByteAnd(_, _)
ByteAnd(a, b) ==
    IF a = 0 \/ b = 0 THEN 0
    ELSE (IF a % 2 = 1 /\ b % 2 = 1 THEN 1 ELSE 0) + 2 * ByteAnd(a \div 2, b \div 2)

\* setVersion without the mask
setVersionNoMask(m, v) == ByteOr(m, ((v % ByteBase) * 8) % ByteBase)

\* msg.setVersion: m.LiVnMode = (m.LiVnMode & 0xc7) | uint8(v)<<3
setVersion(m, v) == ByteOr(ByteAnd(m, 199), ((v % ByteBase) * 8) % ByteBase)

\* msg.setMode: m.LiVnMode = (m.LiVnMode & 0xf8) | uint8(md)
setMode(m, md) == ByteOr(ByteAnd(m, 248), md % ByteBase)

\* msg.setLeap: m.LiVnMode = (m.LiVnMode & 0x3f) | uint8(li)<<6
setLeap(m, li) == ByteOr(ByteAnd(m, 63), ((li % ByteBase) * 64) % ByteBase)

\* msg.getLeap: (m.LiVnMode >> 6) & 0x03
getLeap(m) == ByteAnd(m \div 64, 3)

RECURSIVE ShlBits(_, _)
\* x << k as uint64
ShlBits(x, k) ==
    Val({ IF k = 0 \/ a = Zero64 THEN a ELSE ShlBits(Add64(a, a), k - 1) : a \in {x} })

RECURSIVE ShrBits(_, _)
\* x >> k as uint64
ShrBits(x, k) ==
    Val({ IF k = 0 \/ a = Zero64 THEN a ELSE ShrBits(DivSmall(a, 2), k - 1) : a \in {x} })

\* toInterval(t int8); uint(-t) of t = -128 is a shift count above 63
toInterval(t) ==
    IF t > 0 THEN ShlBits(Second, t)
    ELSE IF t < 0 THEN ShrBits(Second, -t)
    ELSE Second

\* ------------------------------------------------------------------------
\* Offset / RTT / root distance
\* ------------------------------------------------------------------------

\* rtt of the earlier revision: not clamped
rttV1(t1, t2, t3, t4) ==
    LET a == TimeSub(ntpTimeOf(t4), ntpTimeOf(t1))
        b == TimeSub(ntpTimeOf(t3), ntpTimeOf(t2))
    IN  Sub64(a, b)

rttNoClamp(org, rec, xmt, dst) ==
    Sub64(TimeSub(ntpTimeOf(dst), ntpTimeOf(org)), TimeSub(ntpTimeOf(xmt), ntpTimeOf(rec)))

rtt(org, rec, xmt, dst) ==
    LET a == TimeSub(ntpTimeOf(dst), ntpTimeOf(org))
        b == TimeSub(ntpTimeOf(xmt), ntpTimeOf(rec))
        d == Sub64(a, b)
    IN  IF SLt(d, Zero64) THEN Zero64 ELSE d

offsetSwapped(org, rec, xmt, dst) ==
    LET a == TimeSub(ntpTimeOf(rec), ntpTimeOf(org))
        b == TimeSub(ntpTimeOf(dst), ntpTimeOf(xmt))
    IN  SDiv(Add64(a, b), 2)

offset(org, rec, xmt, dst) ==
    LET a == TimeSub(ntpTimeOf(rec), ntpTimeOf(org))
        b == TimeSub(ntpTimeOf(xmt), ntpTimeOf(dst))
    IN  SDiv(Add64(a, b), 2)

\* rootDistance of the earlier revision: rtt clamped here, no MINDISP floor
rootDistanceV1(rt, delay, disp) ==
    LET r0 == IF SLt(rt, Zero64) THEN Zero64 ELSE rt
    IN  Add64(SDiv(Add64(r0, delay), 2), disp)

rootDistanceNoFloor(rt, rootDelay, rootDisp) ==
    Add64(SDiv(Add64(rt, rootDelay), 2), rootDisp)

rootDistance(rt, rootDelay, rootDisp) ==
    LET sum        == Add64(rt, rootDelay)
        totalDelay == IF SLt(sum, minDispersion) THEN minDispersion ELSE sum
    IN  Add64(SDiv(totalDelay, 2), rootDisp)

\* causalityViolation (earlier revision only)
causalityViolation(rt, off) ==
    LET half      == SDiv(rt, 2)
        violation == IF SGt(off, Zero64) THEN Sub64(half, off) ELSE Add64(half, off)
    IN  IF SLt(violation, Zero64) THEN Neg64(violation) ELSE Zero64

\* ------------------------------------------------------------------------
\* Response
\* ------------------------------------------------------------------------

\* parseTime of the later revision
parseTime(m, recvTime) ==
    LET rt    == rtt(m.OriginTime, m.ReceiveTime, m.TransmitTime, recvTime)
        delay == shortDuration(m.RootDelay)
        disp  == shortDuration(m.RootDispersion)
    IN  [ Time           |-> ntpTimeOf(m.TransmitTime),
          RTT            |-> rt,
          ClockOffset    |-> offset(m.OriginTime, m.ReceiveTime, m.TransmitTime, recvTime),
          Poll           |-> toInterval(m.Poll),
          Precision      |-> toInterval(m.Precision),
          Stratum        |-> m.Stratum,
          ReferenceID    |-> m.ReferenceID,
          ReferenceTime  |-> ntpTimeOf(m.ReferenceTime),
          RootDelay      |-> delay,
          RootDispersion |-> disp,
          Leap           |-> getLeap(m.LiVnMode),
          RootDistance   |-> rootDistance(rt, delay, disp) ]

\* parseTime of the earlier revision
parseTimeV1(m, recvTime) ==
    LET rt    == rttV1(m.OriginTime, m.ReceiveTime, m.TransmitTime, recvTime)
        off   == offset(m.OriginTime, m.ReceiveTime, m.TransmitTime, recvTime)
        delay == shortDuration(m.RootDelay)
        disp  == shortDuration(m.RootDispersion)
    IN  [ Time               |-> ntpTimeOf(m.TransmitTime),
          RTT                |-> rt,
          ClockOffset        |-> off,
          Poll               |-> toInterval(m.Poll),
          Precision          |-> toInterval(m.Precision),
          Stratum            |-> m.Stratum,
          ReferenceID        |-> m.ReferenceID,
          ReferenceTime      |-> ntpTimeOf(m.ReferenceTime),
          RootDelay          |-> delay,
          RootDispersion     |-> disp,
          Leap               |-> getLeap(m.LiVnMode),
          RootDistance       |-> rootDistanceV1(rt, delay, disp),
          CausalityViolation |-> causalityViolation(rt, off) ]

\* the error values of Response.Validate; NoError is Go's nil
NoError == "nil"

ErrKiss == "kiss of death received"

ErrStratum == "invalid stratum received"

ErrLeap == "invalid leap second"

ErrNotFresh == "server clock not fresh"

ErrDispersion == "invalid dispersion"

ErrTime == "invalid time reported"

ValidateStratumGt(r) ==
    IF r.Stratum = 0 THEN ErrKiss
    ELSE IF r.Stratum > MaxStratum THEN ErrStratum
    ELSE IF r.Leap = LeapNotInSync THEN ErrLeap
    ELSE IF SGt(TimeSub(r.Time, r.ReferenceTime), maxPollInterval) THEN ErrNotFresh
    ELSE IF SGt(Add64(SDiv(r.RootDelay, 2), r.RootDispersion), maxDispersion) THEN ErrDispersion
    ELSE IF TimeBefore(r.Time, r.ReferenceTime) THEN ErrTime
    ELSE NoError

ValidateLeapFirst(r) ==
    IF r.Leap = LeapNotInSync THEN ErrLeap
    ELSE IF r.Stratum = 0 THEN ErrKiss
    ELSE IF r.Stratum >= MaxStratum THEN ErrStratum
    ELSE IF SGt(TimeSub(r.Time, r.ReferenceTime), maxPollInterval) THEN ErrNotFresh
    ELSE IF SGt(Add64(SDiv(r.RootDelay, 2), r.RootDispersion), maxDispersion) THEN ErrDispersion
    ELSE IF TimeBefore(r.Time, r.ReferenceTime) THEN ErrTime
    ELSE NoError

ValidateFreshGe(r) ==
    IF r.Stratum = 0 THEN ErrKiss
    ELSE IF r.Stratum >= MaxStratum THEN ErrStratum
    ELSE IF r.Leap = LeapNotInSync THEN ErrLeap
    ELSE IF SLe(maxPollInterval, TimeSub(r.Time, r.ReferenceTime)) THEN ErrNotFresh
    ELSE IF SGt(Add64(SDiv(r.RootDelay, 2), r.RootDispersion), maxDispersion) THEN ErrDispersion
    ELSE IF TimeBefore(r.Time, r.ReferenceTime) THEN ErrTime
    ELSE NoError

\* Response.Validate of the later revision
Validate(r) ==
    IF r.Stratum = 0 THEN ErrKiss
    ELSE IF r.Stratum >= MaxStratum THEN ErrStratum
    ELSE IF r.Leap = LeapNotInSync THEN ErrLeap
    ELSE LET freshness == TimeSub(r.Time, r.ReferenceTime)
         IN  IF SGt(freshness, maxPollInterval) THEN ErrNotFresh
             ELSE LET lambda == Add64(SDiv(r.RootDelay, 2), r.RootDispersion)
                  IN  IF SGt(lambda, maxDispersion) THEN ErrDispersion
                      ELSE IF TimeBefore(r.Time, r.ReferenceTime) THEN ErrTime
                      ELSE NoError

\* ------------------------------------------------------------------------
\* State
\* ------------------------------------------------------------------------

VARIABLES
    pc,      \* where the header -> Response -> Validate pipeline stands
    hdr,     \* the received header (msg)
    dst,     \* the destination timestamp (recvTime)
    resp,    \* the Response
    verr,    \* what Response.Validate returned
    cpc,      \* codec round trips: which form was produced last
    nowNtp,   \* the fixed-point value
    nowTime,  \* the instant decoded from it
    first,    \* the fixed-point value the round trips started from
    startNow, \* the instant first decoded
    iter,     \* re-encodings done
    qpc,      \* the statement getTime stands at
    opt,      \* getTime's copy of the QueryOptions
    con,      \* the transport session: "none", "open", "closed"
    netlog,   \* the resolver and transport calls made, in order
    deadline, \* the deadline set on the session
    rnd,      \* what the random source did: "unread", "ok" or "failed"
    xmitMsg,  \* the request header
    sendTime, \* the recorded send instant
    wire,     \* the requests written
    reply,    \* the datagram the read delivered
    recvMsg,  \* the reply header
    recvTime, \* the destination timestamp
    outcome,  \* "running", "returned" or "panicked"
    qerr,     \* the error returned
    qresp,    \* the Response returned by QueryWithOptions (TimeV: its r)
    tvNow,    \* TimeV: the reading of the local clock at its return
    tvTime,   \* TimeV: the time returned
    apc,       \* authentication: which function was applied last
    authOpt,   \* the AuthOptions
    authKey,   \* the key decodeAuthKey returned
    authErr,   \* the error decodeAuthKey or verifyMAC returned
    macBuf,    \* the buffer: the header, then the MAC
    verifyOpt, \* the AuthOptions handed to verifyMAC
    verifyKey, \* the key handed to verifyMAC
    tampered,  \* what was changed after the MAC was appended
    verifyBuf, \* the buffer as it was handed to verifyMAC
    verifySteps, \* what verifyMAC did, in order
    other,     \* two concurrent calls: the variables of the call that is not running
    turn,      \* which of the two calls runs (0: a single call)
    pkg,       \* the package-level variables
    lvByte,    \* a header byte LiVnMode the setters are applied to
    lvBefore,  \* the byte before the last setter was applied
    lvSet,     \* the last setter applied and its argument
    lvSteps    \* setters applied so far

pipeVars == <<pc, hdr, dst, resp, verr>>

codecVars == <<cpc, nowNtp, nowTime, first, startNow, iter>>

queryVars ==
    <<qpc, opt, con, netlog, deadline, rnd, xmitMsg, sendTime, wire, reply, recvMsg,
      recvTime, outcome, qerr, qresp, tvNow, tvTime>>

authVars ==
    <<apc, authOpt, authKey, authErr, macBuf, verifyOpt, verifyKey, tampered, verifyBuf,
      verifySteps>>

concVars == <<other, turn, pkg>>

bitVars == <<lvByte, lvBefore, lvSet, lvSteps>>

vars == <<pipeVars, codecVars, queryVars, authVars, concVars, bitVars>>

NoHeader == [none |-> TRUE]

NoResponse == [none |-> TRUE]

NoOptions == [none |-> TRUE]

NotRun == "not run"

\* ------------------------------------------------------------------------
\* Inputs
\* ------------------------------------------------------------------------

\* how far above MaxStratum the stratum inputs go
StratumSlack == 1

\* the seconds the timestamp inputs of the calculation range over
MaxSec == 1

\* the ntpTime with the given seconds and fraction (both 32-bit words)
NtpTime(sec, frac) == Or64(ShlBytes(sec, 4), Low32(frac))

\* the fraction 0x80000000 (half a second)
HalfFrac == ShlBytes(U64(128), 3)

\* the fraction 0x00000005 decodes to 1 ns
NanoFrac == U64(5)

refID == <<1, 0, 168, 192, 0, 0, 0, 0>>

Header(lv, st, delay, disp, ref, org, rec, xmt) ==
    [ LiVnMode       |-> lv,
      Stratum        |-> st,
      Poll           |-> 6,
      Precision      |-> -1,
      RootDelay      |-> delay,
      RootDispersion |-> disp,
      ReferenceID    |-> refID,
      ReferenceTime  |-> ref,
      OriginTime     |-> org,
      ReceiveTime    |-> rec,
      TransmitTime   |-> xmt ]

\* --- inputs of the validation specification

StratumInputs == 0..(MaxStratum + StratumSlack) \cup {ByteBase - 1}

\* leap 0, 1 and 3, each with version 4 and mode server
LeapInputs == {36, 100, 228}

ValRefTime == NtpTime(U64(86400), Zero64)

\* transmit times: 1 s before the reference time, equal to it, 2^17 s after it,
\* 2^17 s + 1 ns after it, 2^17 + 1 s after it
ValXmitInputs ==
    { NtpTime(U64(86399), Zero64),
      ValRefTime,
      NtpTime(U64(86400 + 131072), Zero64),
      NtpTime(U64(86400 + 131072), NanoFrac),
      NtpTime(U64(86400 + 131072 + 1), Zero64) }

\* <<RootDelay, RootDispersion>> as they come on the wire (16.16 fixed point)
ValDispInputs ==
    { <<Zero64, Zero64>>,
      <<Zero64, U64(16 * 65536)>>,
      <<Zero64, U64(16 * 65536 + 1)>>,
      <<U64(32 * 65536), Zero64>>,
      <<U64(32 * 65536 + 1), Zero64>>,
      <<U64(2), U64(16 * 65536)>>,
      <<U64(65536), U64(15 * 65536 + 32768)>> }

ValHeaders ==
    { Header(lv, st, dd[1], dd[2], ValRefTime, x, x, x) :
        lv \in LeapInputs, st \in StratumInputs, dd \in ValDispInputs, x \in ValXmitInputs }

\* Responses a caller fills in by hand (the fields of Response are exported):
\* RootDelay of a few nanoseconds, RootDispersion within 1 ns of 16 s
HandBuilt ==
    { [ parseTime(Header(36, 1, Zero64, Zero64, ValRefTime, ValRefTime, ValRefTime, ValRefTime),
                  ValRefTime)
        EXCEPT !.RootDelay = U64(d),
               !.RootDispersion = Add64(Sub64(Seconds(16), U64(1)), U64(e)) ] :
        d \in 0..3, e \in 0..2 }

\* --- inputs of the calculation specification

CalcFracs == {Zero64, NanoFrac}

CalcTimes == { NtpTime(U64(86400 + s), f) : s \in 0..MaxSec, f \in CalcFracs }

\* the receive timestamps: those of the first second
CalcRecvTimes == { NtpTime(U64(86400), f) : f \in CalcFracs }

\* <<RootDelay, RootDispersion>> on the wire: 0, 30517 ns, 1 s; 0, 15258 ns
CalcDispInputs ==
    { <<Zero64, Zero64>>, <<U64(2), U64(1)>>, <<U64(65536), Zero64>>, <<U64(65536), U64(1)>> }

\* the instants "now" of the documented offset examples
ExampleNows ==
    { Seconds(86400), Add64(Seconds(86400), U64(1)), Add64(Seconds(86400), U64(999999999)) }

\* T1..T4 at now + a, b, c, d seconds, encoded as the tests encode them
ExampleTimes(now, a, b, c, d) ==
    << toNtpTime(Add64(now, Seconds(a))), toNtpTime(Add64(now, Seconds(b))),
       toNtpTime(Add64(now, Seconds(c))), toNtpTime(Add64(now, Seconds(d))) >>

CalcQuads ==
    (CalcTimes \X CalcRecvTimes \X CalcTimes \X CalcTimes)
    \cup { ExampleTimes(now, 0, 20, 21, 5) : now \in ExampleNows }
    \cup { ExampleTimes(now, 101, 102, 103, 105) : now \in ExampleNows }

\* ------------------------------------------------------------------------
\* Actions
\* ------------------------------------------------------------------------

\* parseTime (later revision) on the received header
ParseTime ==
    /\ pc = "received"
    /\ resp' = parseTime(hdr, dst)
    /\ pc' = "parsed"
    /\ UNCHANGED <<hdr, dst, verr, codecVars, queryVars, authVars, concVars, bitVars>>

\* parseTime (earlier revision) on the received header
ParseTimeV1 ==
    /\ pc = "received"
    /\ resp' = parseTimeV1(hdr, dst)
    /\ pc' = "parsedV1"
    /\ UNCHANGED <<hdr, dst, verr, codecVars, queryVars, authVars, concVars, bitVars>>

\* r.Validate() on a parsed or hand-built Response
DoValidate ==
    /\ pc \in {"parsed", "built"}
    /\ verr' = Validate(resp)
    /\ pc' = "validated"
    /\ UNCHANGED <<hdr, dst, resp, codecVars, queryVars, authVars, concVars, bitVars>>

\* ------------------------------------------------------------------------
\* Specifications
\* ------------------------------------------------------------------------

\* the parts of the state a specification does not use
PipeIdle ==
    /\ pc = "idle" /\ hdr = NoHeader /\ dst = Zero64 /\ resp = NoResponse /\ verr = NotRun

CodecIdle ==
    /\ cpc = "idle" /\ nowNtp = Zero64 /\ nowTime = Zero64 /\ first = Zero64
    /\ startNow = Zero64 /\ iter = 0

QueryIdle ==
    /\ qpc = "idle" /\ opt = NoOptions /\ con = "none" /\ netlog = <<>>
    /\ deadline = Zero64 /\ rnd = "unread" /\ xmitMsg = NoHeader /\ sendTime = Zero64 /\ wire = <<>>
    /\ reply = NoHeader /\ recvMsg = NoHeader /\ recvTime = Zero64 /\ outcome = "running"
    /\ qerr = NoError /\ qresp = NoResponse /\ tvNow = Zero64 /\ tvTime = Zero64

\* src/auth.go lines 40-52: the table of algorithms, indexed by AuthType (from 0)
algorithms ==
    << [MinKeySize |-> 0, MaxKeySize |-> 0, DigestSize |-> 0, CalcDigest |-> "nil"],
       [MinKeySize |-> 4, MaxKeySize |-> 32, DigestSize |-> 16, CalcDigest |-> "calcDigest_MD5"],
       [MinKeySize |-> 4, MaxKeySize |-> 32, DigestSize |-> 20, CalcDigest |-> "calcDigest_SHA1"],
       [MinKeySize |-> 4, MaxKeySize |-> 32, DigestSize |-> 20, CalcDigest |-> "calcDigest_SHA256"],
       [MinKeySize |-> 4, MaxKeySize |-> 32, DigestSize |-> 20, CalcDigest |-> "calcDigest_SHA512"],
       [MinKeySize |-> 16, MaxKeySize |-> 16, DigestSize |-> 16, CalcDigest |-> "calcCMAC_AES"] >>

\* src/kod.go lines 42-57: the errors of the kiss codes
kodErrorMap ==
    [ ACST |-> "the association belongs to a unicast server",
      AUTH |-> "server authentication failed",
      AUTO |-> "autokey sequence failed",
      BCST |-> "the association belongs to a broadcast server",
      CRYP |-> "cryptographic authentication or identification failed",
      DENY |-> "access denied by remote server",
      DROP |-> "lost peer in symmetric mode",
      RSTR |-> "access denied due to local policy",
      INIT |-> "the association has not yet synchronized for the first time",
      MCST |-> "the association belongs to a dynamically discovered server",
      NKEY |-> "no key found",
      RATE |-> "rate exceeded",
      RMOT |-> "alteration of association from a remote host running ntpdc",
      STEP |-> "a step change in system time has occurred, but the association has not yet resynchronized" ]

\* lines 540-542: the epoch, at distance 0 from itself
ntpEpoch == Zero64

\* the package-level variables after initialization
PackageState == [ntpEpoch |-> ntpEpoch, kodErrorMap |-> kodErrorMap, algorithms |-> algorithms]

\* no second call
NoQuery == [none |-> TRUE]

ConcIdle == other = NoQuery /\ turn = 0 /\ pkg = PackageState

NoSetter == <<"none", 0>>

BitIdle == lvByte = 0 /\ lvBefore = 0 /\ lvSet = NoSetter /\ lvSteps = 0

AuthIdle ==
    /\ apc = "idle" /\ authOpt = [Type |-> 0, Key |-> <<>>, KeyID |-> 0] /\ authKey = <<"nil">>
    /\ authErr = NoError /\ macBuf = <<>> /\ verifyOpt = authOpt /\ verifyKey = authKey
    /\ tampered = "nothing" /\ verifyBuf = <<>> /\ verifySteps = <<>>

InitValidate ==
    /\ BitIdle
    /\ ConcIdle
    /\ AuthIdle
    /\ CodecIdle
    /\ QueryIdle
    /\ verr = NotRun
    /\ \/ /\ pc = "received"
          /\ hdr \in ValHeaders
          /\ dst = hdr.TransmitTime
          /\ resp = NoResponse
       \/ /\ pc = "built"
          /\ hdr = NoHeader
          /\ dst = Zero64
          /\ resp \in HandBuilt

NextValidate == ParseTime \/ DoValidate

\* Response.Validate on parsed and hand-built Responses
SpecValidate == InitValidate /\ [][NextValidate]_vars

InitCalc ==
    /\ BitIdle
    /\ ConcIdle
    /\ AuthIdle
    /\ CodecIdle
    /\ QueryIdle
    /\ pc = "received"
    /\ verr = NotRun
    /\ resp = NoResponse
    /\ \E q \in CalcQuads, dd \in CalcDispInputs :
          /\ hdr = Header(36, 1, dd[1], dd[2], ValRefTime, q[1], q[2], q[3])
          /\ dst = q[4]

NextCalc == ParseTime \/ ParseTimeV1

\* parseTime of both revisions on the four timestamps
SpecCalc == InitCalc /\ [][NextCalc]_vars

\* ------------------------------------------------------------------------
\* The 64-bit codec under repeated round trips
\* ------------------------------------------------------------------------

\* the number of re-encodings of TestOfflineTimeConversions
Reencodings == 100

\* the 32-bit words the codec inputs are put together from
CodecSecs == { Zero64, U64(1), ShlBytes(U64(128), 3), Low32(Not64(Zero64)) }

\* 0xff800000
TopFrac == ShlBytes(U64(65408), 2)

\* fractions exactly representable in nanoseconds, and some that are not
CodecFracs ==
    { Zero64, TopFrac, ShlBytes(U64(128), 2), HalfFrac,
      U64(1), U64(5), NanoFrac, Low32(Not64(Zero64)), U64(305419896) }

CodecInputs == { NtpTime(sec, f) : sec \in CodecSecs, f \in CodecFracs }

\* now = nowNtp.Time()
DecodeTime ==
    /\ cpc = "encoded"
    /\ nowTime' = ntpTimeOf(nowNtp)
    /\ startNow' = IF iter = 0 THEN ntpTimeOf(nowNtp) ELSE startNow
    /\ cpc' = "decoded"
    /\ UNCHANGED <<nowNtp, first, iter, pipeVars, queryVars, authVars, concVars, bitVars>>

\* nowNtp = toNtpTime(now), at most Reencodings times
EncodeTime ==
    /\ cpc = "decoded"
    /\ iter < Reencodings
    /\ nowNtp' = toNtpTime(nowTime)
    /\ iter' = iter + 1
    /\ cpc' = "encoded"
    /\ UNCHANGED <<nowTime, first, startNow, pipeVars, queryVars, authVars, concVars, bitVars>>

InitCodec ==
    /\ BitIdle
    /\ ConcIdle
    /\ AuthIdle
    /\ PipeIdle
    /\ QueryIdle
    /\ cpc = "encoded"
    /\ nowNtp \in CodecInputs
    /\ first = nowNtp
    /\ nowTime = Zero64
    /\ startNow = Zero64
    /\ iter = 0

NextCodec == DecodeTime \/ EncodeTime

\* a fixed-point value decoded and re-encoded over and over
SpecCodec == InitCodec /\ [][NextCodec]_vars

\* ------------------------------------------------------------------------
\* getTime and QueryWithOptions (later revision)
\* ------------------------------------------------------------------------

client == 3

server == 4

defaultTimeout == Seconds(5)

\* how far past defaultNtpVersion the configured versions go
VersionSlack == 1

\* the local clock reads 86400 s .. 86400 + MaxClock s after the epoch
MaxClock == 1

VersionInputs == (-1)..(defaultNtpVersion + VersionSlack)

OptionInputs ==
    [ Version : VersionInputs,
      Timeout : {Zero64, Second},
      LocalAddress : {"", "192.0.2.1"},
      TTL : {0, 1} ]

\* what time.Now() may return; successive readings are unrelated, so the clock
\* may stand still, advance or be stepped backwards between two readings
ClockInputs == { Seconds(86400 + s) : s \in 0..MaxClock }

\* what crypto/rand may deliver
RandInputs == { <<239, 190, 173, 222, 13, 240, 254, 202>> }

\* a value no request of the model carries
ReplyOther == U64(1)

\* the byte LiVnMode of replies: leap 0, version 4, mode server and broadcast
ReplyModes == {36, 37}

\* <<ReceiveTime, TransmitTime>> of replies
ReplyTimes ==
    { <<NtpTime(U64(86400), Zero64), NtpTime(U64(86401), Zero64)>>,
      <<NtpTime(U64(86401), Zero64), NtpTime(U64(86400), Zero64)>>,
      <<Zero64, Zero64>> }

\* <<LiVnMode, Stratum>> of replies: stratum 1 in each mode, and a kiss of death
ReplyKinds == { <<lv, 1>> : lv \in ReplyModes } \cup { <<36, 0>> }

\* the datagrams the read may deliver after request x: the origin echoes the
\* request's transmit timestamp, or holds a foreign value, or the send instant
Replies(x) ==
    { Header(k[1], k[2], Zero64, Zero64, ValRefTime, org, p[1], p[2]) :
        k \in ReplyKinds, org \in {x.TransmitTime, ReplyOther, sendTime},
        p \in ReplyTimes }

\* new(msg)
ZeroMsg ==
    [ LiVnMode       |-> 0,
      Stratum        |-> 0,
      Poll           |-> 0,
      Precision      |-> 0,
      RootDelay      |-> Zero64,
      RootDispersion |-> Zero64,
      ReferenceID    |-> Zero64,
      ReferenceTime  |-> Zero64,
      OriginTime     |-> Zero64,
      ReceiveTime    |-> Zero64,
      TransmitTime   |-> Zero64 ]

RECURSIVE Count(_, _)
\* how many times op occurs in the call log
Count(log, op) ==
    IF log = <<>> THEN 0
    ELSE (IF Head(log) = op THEN 1 ELSE 0) + Count(Tail(log), op)

PanicVersion == "ntp: invalid version number"

ErrMismatch == "server response mismatch"

ErrBackwards == "server clock ticked backwards"

\* the errors of the resolver and of the transport, returned unchanged
ErrResolve == "resolve error"

ErrDial == "dial error"

ErrTTL == "set ttl error"

ErrWrite == "write error"

ErrRead == "read error"

\* the version bits of a header byte
getVersion(m) == ByteAnd(m \div 8, 7)

\* the mode bits of a header byte
getMode(m) == ByteAnd(m, 7)

\* a return of getTime with error e before the session exists
ReturnErr(e) ==
    /\ qerr' = e
    /\ qpc' = "gotTime"

\* a return after the dial that leaves the session as it is
ReturnErrNoClose(e, log) ==
    /\ qerr' = e
    /\ qpc' = "gotTime"
    /\ con' = con
    /\ netlog' = log

\* a return of getTime with error e once con.Close() is deferred
ReturnErrClose(e, log) ==
    /\ qerr' = e
    /\ qpc' = "gotTime"
    /\ con' = "closed"
    /\ netlog' = Append(log, "close")

\* lines 778-783: default the version, panic when it is out of range
CheckVersion ==
    /\ qpc = "start"
    /\ LET v == IF opt.Version = 0 THEN defaultNtpVersion ELSE opt.Version
       IN  /\ opt' = [opt EXCEPT !.Version = v]
           /\ IF v < 2 \/ v > 4
              THEN /\ outcome' = "panicked"
                   /\ qerr' = PanicVersion
                   /\ qpc' = "done"
              ELSE /\ qpc' = "resolve"
                   /\ UNCHANGED <<outcome, qerr>>
    /\ UNCHANGED <<con, netlog, deadline, xmitMsg, sendTime, wire, recvMsg, recvTime, qresp,
                   reply, rnd, tvNow, tvTime,
                   pipeVars, codecVars, authVars, concVars, bitVars>>

\* lines 786-789: resolve the server address
ResolveRemote ==
    /\ qpc = "resolve"
    /\ netlog' = Append(netlog, "resolve")
    /\ \/ /\ qpc' = IF opt.LocalAddress # "" THEN "resolveLocal" ELSE "dial"
          /\ UNCHANGED qerr
       \/ ReturnErr(ErrResolve)
    /\ UNCHANGED <<opt, con, deadline, xmitMsg, sendTime, wire, recvMsg, recvTime, outcome,
                   qresp, reply, rnd, tvNow, tvTime,
                   pipeVars, codecVars, authVars, concVars, bitVars>>

\* lines 792-798: resolve the local address when one is configured
ResolveLocal ==
    /\ qpc = "resolveLocal"
    /\ netlog' = Append(netlog, "resolveLocal")
    /\ \/ /\ qpc' = "dial"
          /\ UNCHANGED qerr
       \/ ReturnErr(ErrResolve)
    /\ UNCHANGED <<opt, con, deadline, xmitMsg, sendTime, wire, recvMsg, recvTime, outcome,
                   qresp, reply, rnd, tvNow, tvTime,
                   pipeVars, codecVars, authVars, concVars, bitVars>>

\* lines 806-810: open the session; from here on con.Close() runs at return
Dial ==
    /\ qpc = "dial"
    /\ \/ /\ con' = "open"
          /\ netlog' = Append(netlog, "dial")
          /\ qpc' = IF opt.TTL # 0 THEN "setTTL" ELSE "setDeadline"
          /\ UNCHANGED qerr
       \/ /\ netlog' = Append(netlog, "dial")
          /\ ReturnErr(ErrDial)
          /\ UNCHANGED con
    /\ UNCHANGED <<opt, deadline, xmitMsg, sendTime, wire, recvMsg, recvTime, outcome, qresp,
                   reply, rnd, tvNow, tvTime,
                   pipeVars, codecVars, authVars, concVars, bitVars>>

\* lines 813-819: set the TTL when one is configured
SetTTL ==
    /\ qpc = "setTTL"
    /\ \/ /\ netlog' = Append(netlog, "setTTL")
          /\ qpc' = "setDeadline"
          /\ UNCHANGED <<qerr, con>>
       \/ ReturnErrClose(ErrTTL, Append(netlog, "setTTL"))
    /\ UNCHANGED <<opt, deadline, xmitMsg, sendTime, wire, recvMsg, recvTime, outcome, qresp,
                   reply, rnd, tvNow, tvTime,
                   pipeVars, codecVars, authVars, concVars, bitVars>>

\* lines 822-824: a timeout of 0 means defaultTimeout
effectiveTimeout(d) == IF d = Zero64 THEN defaultTimeout ELSE d

\* lines 822-825: default the timeout, set the deadline now + timeout
SetDeadline ==
    /\ qpc = "setDeadline"
    /\ \E t \in ClockInputs :
          LET timeout == effectiveTimeout(opt.Timeout)
          IN  /\ opt' = [opt EXCEPT !.Timeout = timeout]
              /\ deadline' = Add64(t, timeout)
    /\ netlog' = Append(netlog, "setDeadline")
    /\ qpc' = "build"
    /\ UNCHANGED <<con, xmitMsg, sendTime, wire, recvMsg, recvTime, outcome, qerr, qresp,
                   reply, rnd, tvNow, tvTime,
                   pipeVars, codecVars, authVars, concVars, bitVars>>

\* lines 828-849, the clock reading written as transmit timestamp also when the
\* random source succeeded
BuildRequestClock ==
    /\ qpc = "build"
    /\ LET lvm == setLeap(setVersion(setMode(ZeroMsg.LiVnMode, client), opt.Version),
                          LeapNotInSync)
       IN  \E t \in ClockInputs :
              \/ \E r \in RandInputs :
                    /\ rnd' = "ok"
                    /\ xmitMsg' = [ZeroMsg EXCEPT !.LiVnMode = lvm,
                                                  !.TransmitTime = toNtpTime(t)]
                    /\ sendTime' = toNtpTime(t)
              \/ /\ rnd' = "failed"
                 /\ xmitMsg' = [ZeroMsg EXCEPT !.LiVnMode = lvm,
                                               !.TransmitTime = toNtpTime(t)]
                 /\ sendTime' = toNtpTime(t)
    /\ qpc' = "write"
    /\ UNCHANGED <<opt, con, netlog, deadline, wire, recvMsg, recvTime, outcome, qerr, qresp,
                   reply, tvNow, tvTime,
                   pipeVars, codecVars, authVars, concVars, bitVars>>

\* lines 828-849: the request header, its transmit timestamp, the send time
BuildRequest ==
    /\ qpc = "build"
    /\ LET lvm == setLeap(setVersion(setMode(ZeroMsg.LiVnMode, client), opt.Version),
                          LeapNotInSync)
       IN  \E t \in ClockInputs :
              \/ \E r \in RandInputs :
                    /\ rnd' = "ok"
                    /\ xmitMsg' = [ZeroMsg EXCEPT !.LiVnMode = lvm, !.TransmitTime = r]
                    /\ sendTime' = toNtpTime(t)
              \/ /\ rnd' = "failed"
                 /\ xmitMsg' = [ZeroMsg EXCEPT !.LiVnMode = lvm,
                                               !.TransmitTime = toNtpTime(t)]
                 /\ sendTime' = toNtpTime(t)
    /\ qpc' = "write"
    /\ UNCHANGED <<opt, con, netlog, deadline, wire, recvMsg, recvTime, outcome, qerr, qresp,
                   reply, tvNow, tvTime,
                   pipeVars, codecVars, authVars, concVars, bitVars>>

\* lines 852-855: write the request
WriteRequest ==
    /\ qpc = "write"
    /\ \/ /\ wire' = Append(wire, xmitMsg)
          /\ netlog' = Append(netlog, "write")
          /\ qpc' = "read"
          /\ UNCHANGED <<qerr, con>>
       \/ /\ ReturnErrClose(ErrWrite, Append(netlog, "write"))
          /\ UNCHANGED wire
    /\ UNCHANGED <<opt, deadline, xmitMsg, sendTime, recvMsg, recvTime, outcome, qresp,
                   reply, rnd, tvNow, tvTime,
                   pipeVars, codecVars, authVars, concVars, bitVars>>

\* the read tried again after it failed
ReadReplyRetry ==
    /\ qpc = "read"
    /\ \/ /\ \E m \in Replies(xmitMsg) : recvMsg' = m /\ reply' = m
          /\ netlog' = Append(netlog, "read")
          /\ qpc' = "check"
          /\ UNCHANGED <<qerr, con>>
       \/ /\ Count(netlog, "read") = 0
          /\ netlog' = Append(netlog, "read")
          /\ UNCHANGED <<qpc, qerr, con, recvMsg, reply>>
       \/ /\ ReturnErrClose(ErrRead, Append(netlog, "read"))
          /\ UNCHANGED <<recvMsg, reply>>
    /\ UNCHANGED <<opt, deadline, xmitMsg, sendTime, wire, recvTime, outcome, qresp, rnd,
                   tvNow, tvTime,
                   pipeVars, codecVars, authVars, concVars, bitVars>>

\* lines 858-861: read the reply, or fail (at the deadline at the latest)
ReadReply ==
    /\ qpc = "read"
    /\ \/ /\ \E m \in Replies(xmitMsg) : recvMsg' = m /\ reply' = m
          /\ netlog' = Append(netlog, "read")
          /\ qpc' = "check"
          /\ UNCHANGED <<qerr, con>>
       \/ /\ ReturnErrClose(ErrRead, Append(netlog, "read"))
          /\ UNCHANGED <<recvMsg, reply>>
    /\ UNCHANGED <<opt, deadline, xmitMsg, sendTime, wire, recvTime, outcome, qresp, rnd,
                   tvNow, tvTime,
                   pipeVars, codecVars, authVars, concVars, bitVars>>

\* the origin check left out
originNeverMismatch(m, x) == FALSE

\* line 867: recvMsg.OriginTime != xmitMsg.TransmitTime
originMismatch(m, x) == m.OriginTime # x.TransmitTime

\* the ordering check left out
clockNeverBackwards(m) == FALSE

\* line 870: recvMsg.ReceiveTime > recvMsg.TransmitTime
clockBackwards(m) == ULt(m.TransmitTime, m.ReceiveTime)

\* the reply handed on with the origin it came with
keepOrigin(m, st) == m

\* line 876: recvMsg.OriginTime = sendTime
correctOrigin(m, st) == [m EXCEPT !.OriginTime = st]

\* lines 864-878: stamp the receive time, check the reply, correct its origin
CheckReply ==
    /\ qpc = "check"
    /\ \E t \in ClockInputs : recvTime' = toNtpTime(t)
    /\ IF originMismatch(recvMsg, xmitMsg)
       THEN /\ ReturnErrClose(ErrMismatch, netlog)
            /\ UNCHANGED recvMsg
       ELSE IF clockBackwards(recvMsg)
       THEN /\ ReturnErrClose(ErrBackwards, netlog)
            /\ UNCHANGED recvMsg
       ELSE /\ recvMsg' = correctOrigin(recvMsg, sendTime)
            /\ ReturnErrClose(NoError, netlog)
    /\ UNCHANGED <<opt, deadline, xmitMsg, sendTime, wire, outcome, qresp,
                   reply, rnd, tvNow, tvTime,
                   pipeVars, codecVars, authVars, concVars, bitVars>>

\* QueryWithOptions, lines 743-747: hand on the error or parse the reply
QueryReturn ==
    /\ qpc = "gotTime"
    /\ qresp' = IF qerr # NoError THEN NoResponse ELSE parseTime(recvMsg, recvTime)
    /\ outcome' = "returned"
    /\ qpc' = "done"
    /\ UNCHANGED <<opt, con, netlog, deadline, xmitMsg, sendTime, wire, recvMsg, recvTime,
                   qerr, reply, rnd, tvNow, tvTime,
                   pipeVars, codecVars, authVars, concVars, bitVars>>

InitQuery ==
    /\ BitIdle
    /\ ConcIdle
    /\ AuthIdle
    /\ PipeIdle
    /\ CodecIdle
    /\ qpc = "start"
    /\ opt \in OptionInputs
    /\ con = "none"
    /\ netlog = <<>>
    /\ deadline = Zero64
    /\ rnd = "unread"
    /\ xmitMsg = NoHeader
    /\ sendTime = Zero64
    /\ wire = <<>>
    /\ reply = NoHeader
    /\ recvMsg = NoHeader
    /\ recvTime = Zero64
    /\ outcome = "running"
    /\ qerr = NoError
    /\ qresp = NoResponse
    /\ tvNow = Zero64
    /\ tvTime = Zero64

NextQuery ==
    \/ CheckVersion
    \/ ResolveRemote
    \/ ResolveLocal
    \/ Dial
    \/ SetTTL
    \/ SetDeadline
    \/ BuildRequest
    \/ WriteRequest
    \/ ReadReply
    \/ CheckReply
    \/ QueryReturn

\* one call of QueryWithOptions
SpecQuery == InitQuery /\ [][NextQuery]_vars

\* one call of QueryWithOptions whose every call returns: the resolver and the
\* transport calls return, the read at the deadline at the latest
SpecQueryFair == SpecQuery /\ WF_vars(NextQuery)

\* TimeV with the offset added whenever a Response was parsed
timeVAlwaysOffset(t, r, err) == IF r = NoResponse THEN t ELSE Add64(t, r.ClockOffset)

\* lines 754-765: the time TimeV returns, t being the reading of time.Now()
timeVTime(t, r, err) == IF err # NoError THEN t ELSE Add64(t, r.ClockOffset)

\* TimeV, lines 754-765: the local time on error, else parse, validate and
\* return the local time plus the clock offset
TimeVReturn ==
    /\ qpc = "gotTime"
    /\ LET r   == IF qerr # NoError THEN NoResponse ELSE parseTime(recvMsg, recvTime)
           err == IF qerr # NoError THEN qerr ELSE Validate(r)
       IN  /\ qresp' = r
           /\ qerr' = err
           /\ \E t \in ClockInputs :
                 /\ tvNow' = t
                 /\ tvTime' = timeVTime(t, r, err)
    /\ outcome' = "returned"
    /\ qpc' = "done"
    /\ UNCHANGED <<opt, con, netlog, deadline, rnd, xmitMsg, sendTime, wire, reply, recvMsg,
                   recvTime, pipeVars, codecVars, authVars, concVars, bitVars>>

\* TimeV(host, version): getTime(host, QueryOptions{Version: version})
InitTimeV ==
    /\ BitIdle
    /\ ConcIdle
    /\ AuthIdle
    /\ PipeIdle
    /\ CodecIdle
    /\ qpc = "start"
    /\ \E v \in VersionInputs :
          opt = [Version |-> v, Timeout |-> Zero64, LocalAddress |-> "", TTL |-> 0]
    /\ con = "none"
    /\ netlog = <<>>
    /\ deadline = Zero64
    /\ rnd = "unread"
    /\ xmitMsg = NoHeader
    /\ sendTime = Zero64
    /\ wire = <<>>
    /\ reply = NoHeader
    /\ recvMsg = NoHeader
    /\ recvTime = Zero64
    /\ outcome = "running"
    /\ qerr = NoError
    /\ qresp = NoResponse
    /\ tvNow = Zero64
    /\ tvTime = Zero64

NextTimeV ==
    \/ CheckVersion
    \/ ResolveRemote
    \/ Dial
    \/ SetDeadline
    \/ BuildRequest
    \/ WriteRequest
    \/ ReadReply
    \/ CheckReply
    \/ TimeVReturn

\* one call of TimeV
SpecTimeV == InitTimeV /\ [][NextTimeV]_vars

\* ------------------------------------------------------------------------
\* Symmetric key authentication (src/auth.go)
\* ------------------------------------------------------------------------

\* lines 23-30: AuthType
AuthNone == 0
AuthMD5 == 1
AuthSHA1 == 2
AuthSHA256 == 3
AuthSHA512 == 4
AuthAES128 == 5

\* line 189
headerSize == 48

ErrInvalidAuthKey == "ErrInvalidAuthKey"
ErrAuthFailed == "ErrAuthFailed"
PanicCipher == "crypto/aes: invalid key size"

NoKey == <<"nil">>

\* a text is the sequence of its bytes; the ASCII codes of the characters used
Digits == <<"0", "1", "2", "3", "4", "5", "6", "7", "8", "9">>
Upper ==
    <<"A", "B", "C", "D", "E", "F", "G", "H", "I", "J", "K", "L", "M",
      "N", "O", "P", "Q", "R", "S", "T", "U", "V", "W", "X", "Y", "Z">>
Lower ==
    <<"a", "b", "c", "d", "e", "f", "g", "h", "i", "j", "k", "l", "m",
      "n", "o", "p", "q", "r", "s", "t", "u", "v", "w", "x", "y", "z">>

IndexOf(c, s) == CHOOSE i \in 1..Len(s) : s[i] = c

Code(c) ==
    IF \E i \in 1..Len(Digits) : Digits[i] = c THEN 47 + IndexOf(c, Digits)
    ELSE IF \E i \in 1..Len(Upper) : Upper[i] = c THEN 64 + IndexOf(c, Upper)
    ELSE IF \E i \in 1..Len(Lower) : Lower[i] = c THEN 96 + IndexOf(c, Lower)
    ELSE 64

Ascii(s) == [i \in 1..Len(s) |-> Code(s[i])]

\* encoding/hex fromHexChar: the value of a hexadecimal digit, -1 for any other byte
fromHexChar(c) ==
    IF c >= 48 /\ c <= 57 THEN c - 48
    ELSE IF c >= 97 /\ c <= 102 THEN c - 97 + 10
    ELSE IF c >= 65 /\ c <= 70 THEN c - 65 + 10
    ELSE -1

\* encoding/hex DecodeString (called at line 159): the bytes of the pairs of digits;
\* an error for a byte that is no digit and for an odd length
hexDecodeString(s) ==
    IF \/ Len(s) % 2 = 1
       \/ \E i \in 1..Len(s) : fromHexChar(s[i]) = -1
    THEN [bytes |-> <<>>, err |-> TRUE]
    ELSE [bytes |-> [i \in 1..(Len(s) \div 2) |->
                        16 * fromHexChar(s[2 * i - 1]) + fromHexChar(s[2 * i])],
          err |-> FALSE]

algorithm(type) == algorithms[type + 1]

\* lines 155-176, its threshold at "20 characters or more"
decodeAuthKeyFrom20(o) ==
    LET hex == hexDecodeString(o.Key)
        key == IF Len(o.Key) >= 20 THEN hex.bytes ELSE o.Key
        a == algorithm(o.Type)
    IN  IF Len(o.Key) >= 20 /\ hex.err THEN [key |-> NoKey, err |-> ErrInvalidAuthKey]
        ELSE IF Len(key) < a.MinKeySize THEN [key |-> NoKey, err |-> ErrInvalidAuthKey]
        ELSE IF Len(key) > a.MaxKeySize
             THEN [key |-> SubSeq(key, 1, a.MaxKeySize), err |-> NoError]
             ELSE [key |-> key, err |-> NoError]

\* lines 155-176
decodeAuthKey(o) ==
    LET hex == hexDecodeString(o.Key)
        key == IF Len(o.Key) > 20 THEN hex.bytes ELSE o.Key
        a == algorithm(o.Type)
    IN  IF Len(o.Key) > 20 /\ hex.err THEN [key |-> NoKey, err |-> ErrInvalidAuthKey]
        ELSE IF Len(key) < a.MinKeySize THEN [key |-> NoKey, err |-> ErrInvalidAuthKey]
        ELSE IF Len(key) > a.MaxKeySize
             THEN [key |-> SubSeq(key, 1, a.MaxKeySize), err |-> NoError]
             ELSE [key |-> key, err |-> NoError]

\* the bitwise operations of Go on the sixteen values of four bits
XorNib ==
    << <<0, 1, 2, 3, 4, 5, 6, 7, 8, 9, 10, 11, 12, 13, 14, 15>>,
       <<1, 0, 3, 2, 5, 4, 7, 6, 9, 8, 11, 10, 13, 12, 15, 14>>,
       <<2, 3, 0, 1, 6, 7, 4, 5, 10, 11, 8, 9, 14, 15, 12, 13>>,
       <<3, 2, 1, 0, 7, 6, 5, 4, 11, 10, 9, 8, 15, 14, 13, 12>>,
       <<4, 5, 6, 7, 0, 1, 2, 3, 12, 13, 14, 15, 8, 9, 10, 11>>,
       <<5, 4, 7, 6, 1, 0, 3, 2, 13, 12, 15, 14, 9, 8, 11, 10>>,
       <<6, 7, 4, 5, 2, 3, 0, 1, 14, 15, 12, 13, 10, 11, 8, 9>>,
       <<7, 6, 5, 4, 3, 2, 1, 0, 15, 14, 13, 12, 11, 10, 9, 8>>,
       <<8, 9, 10, 11, 12, 13, 14, 15, 0, 1, 2, 3, 4, 5, 6, 7>>,
       <<9, 8, 11, 10, 13, 12, 15, 14, 1, 0, 3, 2, 5, 4, 7, 6>>,
       <<10, 11, 8, 9, 14, 15, 12, 13, 2, 3, 0, 1, 6, 7, 4, 5>>,
       <<11, 10, 9, 8, 15, 14, 13, 12, 3, 2, 1, 0, 7, 6, 5, 4>>,
       <<12, 13, 14, 15, 8, 9, 10, 11, 4, 5, 6, 7, 0, 1, 2, 3>>,
       <<13, 12, 15, 14, 9, 8, 11, 10, 5, 4, 7, 6, 1, 0, 3, 2>>,
       <<14, 15, 12, 13, 10, 11, 8, 9, 6, 7, 4, 5, 2, 3, 0, 1>>,
       <<15, 14, 13, 12, 11, 10, 9, 8, 7, 6, 5, 4, 3, 2, 1, 0>> >>

AndNib ==
    << <<0, 0, 0, 0, 0, 0, 0, 0, 0, 0, 0, 0, 0, 0, 0, 0>>,
       <<0, 1, 0, 1, 0, 1, 0, 1, 0, 1, 0, 1, 0, 1, 0, 1>>,
       <<0, 0, 2, 2, 0, 0, 2, 2, 0, 0, 2, 2, 0, 0, 2, 2>>,
       <<0, 1, 2, 3, 0, 1, 2, 3, 0, 1, 2, 3, 0, 1, 2, 3>>,
       <<0, 0, 0, 0, 4, 4, 4, 4, 0, 0, 0, 0, 4, 4, 4, 4>>,
       <<0, 1, 0, 1, 4, 5, 4, 5, 0, 1, 0, 1, 4, 5, 4, 5>>,
       <<0, 0, 2, 2, 4, 4, 6, 6, 0, 0, 2, 2, 4, 4, 6, 6>>,
       <<0, 1, 2, 3, 4, 5, 6, 7, 0, 1, 2, 3, 4, 5, 6, 7>>,
       <<0, 0, 0, 0, 0, 0, 0, 0, 8, 8, 8, 8, 8, 8, 8, 8>>,
       <<0, 1, 0, 1, 0, 1, 0, 1, 8, 9, 8, 9, 8, 9, 8, 9>>,
       <<0, 0, 2, 2, 0, 0, 2, 2, 8, 8, 10, 10, 8, 8, 10, 10>>,
       <<0, 1, 2, 3, 0, 1, 2, 3, 8, 9, 10, 11, 8, 9, 10, 11>>,
       <<0, 0, 0, 0, 4, 4, 4, 4, 8, 8, 8, 8, 12, 12, 12, 12>>,
       <<0, 1, 0, 1, 4, 5, 4, 5, 8, 9, 8, 9, 12, 13, 12, 13>>,
       <<0, 0, 2, 2, 4, 4, 6, 6, 8, 8, 10, 10, 12, 12, 14, 14>>,
       <<0, 1, 2, 3, 4, 5, 6, 7, 8, 9, 10, 11, 12, 13, 14, 15>> >>

\* a ^ b and a & b on bytes
Xor8(a, b) ==
    16 * XorNib[(a \div 16) + 1][(b \div 16) + 1] + XorNib[(a % 16) + 1][(b % 16) + 1]

And8(a, b) ==
    16 * AndNib[(a \div 16) + 1][(b \div 16) + 1] + AndNib[(a % 16) + 1][(b % 16) + 1]

\* crypto/aes (called at src/auth.go lines 77, 85, 93, 104): the cipher of FIPS 197.
\* The substitution table
SBox ==
    <<
    99, 124, 119, 123, 242, 107, 111, 197, 48, 1, 103, 43, 254, 215, 171, 118,
    202, 130, 201, 125, 250, 89, 71, 240, 173, 212, 162, 175, 156, 164, 114, 192,
    183, 253, 147, 38, 54, 63, 247, 204, 52, 165, 229, 241, 113, 216, 49, 21,
    4, 199, 35, 195, 24, 150, 5, 154, 7, 18, 128, 226, 235, 39, 178, 117,
    9, 131, 44, 26, 27, 110, 90, 160, 82, 59, 214, 179, 41, 227, 47, 132,
    83, 209, 0, 237, 32, 252, 177, 91, 106, 203, 190, 57, 74, 76, 88, 207,
    208, 239, 170, 251, 67, 77, 51, 133, 69, 249, 2, 127, 80, 60, 159, 168,
    81, 163, 64, 143, 146, 157, 56, 245, 188, 182, 218, 33, 16, 255, 243, 210,
    205, 12, 19, 236, 95, 151, 68, 23, 196, 167, 126, 61, 100, 93, 25, 115,
    96, 129, 79, 220, 34, 42, 144, 136, 70, 238, 184, 20, 222, 94, 11, 219,
    224, 50, 58, 10, 73, 6, 36, 92, 194, 211, 172, 98, 145, 149, 228, 121,
    231, 200, 55, 109, 141, 213, 78, 169, 108, 86, 244, 234, 101, 122, 174, 8,
    186, 120, 37, 46, 28, 166, 180, 198, 232, 221, 116, 31, 75, 189, 139, 138,
    112, 62, 181, 102, 72, 3, 246, 14, 97, 53, 87, 185, 134, 193, 29, 158,
    225, 248, 152, 17, 105, 217, 142, 148, 155, 30, 135, 233, 206, 85, 40, 223,
    140, 161, 137, 13, 191, 230, 66, 104, 65, 153, 45, 15, 176, 84, 187, 22 >>

\* the round constants of the key expansion
Rcon == <<1, 2, 4, 8, 16, 32, 64, 128, 27, 54>>

\* multiplication by x in GF(2^8)
xtime(a) == IF a < 128 THEN 2 * a ELSE Xor8(2 * a - 256, 27)

Xor4(a, b, c, d) == Xor8(Xor8(a, b), Xor8(c, d))

XorWord(u, v) ==
    Val({ <<Xor8(x[1], y[1]), Xor8(x[2], y[2]), Xor8(x[3], y[3]), Xor8(x[4], y[4])>> :
            x \in {u}, y \in {v} })

subWord(t) ==
    Val({ <<SBox[x[1] + 1], SBox[x[2] + 1], SBox[x[3] + 1], SBox[x[4] + 1]>> : x \in {t} })

\* the words of one round of the expansion made one after the other: q holds those
\* made so far, each the word of p at its place xor'ed with the word before it
RECURSIVE nextWordsFrom(_, _)
nextWordsFrom(p, q) ==
    IF Len(q) = Len(p) THEN q
    ELSE Val({ nextWordsFrom(p, Append(q, n)) :
                 n \in {XorWord(p[Len(q) + 1],
                                IF Len(p) > 6 /\ Len(q) = 4 THEN subWord(q[4]) ELSE q[Len(q)])} })

\* the key expansion, as many words at a time as the key has: the words p made
\* last give the next ones, j counting the rounds of the expansion
nextWords(p, j) ==
    LET t == p[Len(p)]
        g == <<Xor8(SBox[t[2] + 1], Rcon[j]), SBox[t[3] + 1], SBox[t[4] + 1], SBox[t[1] + 1]>>
    IN  Val({ nextWordsFrom(p, <<n>>) : n \in {XorWord(p[1], g)} })

\* w holds the words made so far, the key having nk words, n the words needed
RECURSIVE expandKeyFrom(_, _, _, _)
expandKeyFrom(w, nk, j, n) ==
    IF Len(w) >= n THEN SubSeq(w, 1, n)
    ELSE Val({ expandKeyFrom(v, nk, j + 1, n) :
                 v \in {w \o nextWords(SubSeq(w, Len(w) - nk + 1, Len(w)), j)} })

expandKey(key) ==
    Val({ expandKeyFrom(p, Len(p), 1, 4 * (Len(p) + 7)) :
            p \in {[i \in 1..(Len(key) \div 4) |-> SubSeq(key, 4 * i - 3, 4 * i)] \o <<>>} })

\* the round key of round r (0 for the first) as sixteen bytes
roundKey(w, r) == w[4 * r + 1] \o w[4 * r + 2] \o w[4 * r + 3] \o w[4 * r + 4]

addRoundKey(s, k) == Val({ [i \in 1..16 |-> Xor8(x[i], y[i])] \o <<>> : x \in {s}, y \in {k} })

\* SubBytes and ShiftRows: byte r of column c comes from column c + r
subShift(s) ==
    Val({ [i \in 1..16 |->
              SBox[x[((i - 1) % 4) + 4 * ((((i - 1) \div 4) + ((i - 1) % 4)) % 4) + 1] + 1]]
              \o <<>> : x \in {s} })

mixColumn(a, b, c, d) ==
    Val({ << Xor4(xa, Xor8(xb, b), c, d),
             Xor4(a, xb, Xor8(xc, c), d),
             Xor4(a, b, xc, Xor8(xd, d)),
             Xor4(Xor8(xa, a), b, c, xd) >> :
            xa \in {xtime(a)}, xb \in {xtime(b)}, xc \in {xtime(c)}, xd \in {xtime(d)} })

mixColumns(s) ==
    Val({ mixColumn(x[1], x[2], x[3], x[4]) \o mixColumn(x[5], x[6], x[7], x[8])
              \o mixColumn(x[9], x[10], x[11], x[12]) \o mixColumn(x[13], x[14], x[15], x[16]) :
            x \in {s} })

\* rounds r .. nr of the cipher on the state s
RECURSIVE aesRounds(_, _, _, _)
aesRounds(s, w, r, nr) ==
    IF r = nr
    THEN addRoundKey(subShift(s), roundKey(w, r))
    ELSE Val({ aesRounds(t, w, r + 1, nr) :
                 t \in {addRoundKey(mixColumns(subShift(s)), roundKey(w, r))} })

\* cipher.Block.Encrypt of one block of 16 bytes, w being the expanded key
aesEncrypt(w, block) ==
    aesRounds(addRoundKey(block, roundKey(w, 0)), w, 1, (Len(w) \div 4) - 1)

\* a ^ b and a & b on 16 bits
Xor16(a, b) == 256 * Xor8(a \div 256, b \div 256) + Xor8(a % 256, b % 256)

And16(a, b) == 256 * And8(a \div 256, b \div 256) + And8(a % 256, b % 256)

\* The words of the hash functions, uint32 and uint64, are tuples of 2 and of 4
\* numbers of 16 bits, the most significant first.
wXor(a, b) == Val({ [i \in 1..Len(x) |-> Xor16(x[i], y[i])] \o <<>> : x \in {a}, y \in {b} })

wXor3(a, b, c) == wXor(wXor(a, b), c)

wAnd(a, b) == Val({ [i \in 1..Len(x) |-> And16(x[i], y[i])] \o <<>> : x \in {a}, y \in {b} })

wNot(a) == Val({ [i \in 1..Len(x) |-> 65535 - x[i]] \o <<>> : x \in {a} })

\* (a & b) | (^a & c): the two parts share no bit, so that | adds them
wChoose(a, b, c) ==
    Val({ [i \in 1..Len(x) |-> And16(x[i], y[i]) + And16(65535 - x[i], z[i])] \o <<>> :
            x \in {a}, y \in {b}, z \in {c} })

\* (a & b) | (a & c) | (b & c), which is (a & b) | (c & (a ^ b))
wMajority(a, b, c) ==
    Val({ [i \in 1..Len(x) |-> And16(x[i], y[i]) + And16(z[i], Xor16(x[i], y[i]))] \o <<>> :
            x \in {a}, y \in {b}, z \in {c} })

\* a | ^b, which is a + ^b - (a & ^b)
wOrNot(a, b) ==
    Val({ [i \in 1..Len(x) |-> x[i] + (65535 - y[i]) - And16(x[i], 65535 - y[i])] \o <<>> :
            x \in {a}, y \in {b} })

RECURSIVE limbSum(_, _, _)
limbSum(ws, k, i) == IF i > Len(ws) THEN 0 ELSE ws[i][k] + limbSum(ws, k, i + 1)

RECURSIVE limbTotal(_, _)
limbTotal(ws, k) ==
    limbSum(ws, k, 1) + (IF k = Len(ws[1]) THEN 0 ELSE limbTotal(ws, k + 1) \div 65536)

\* the sum of the words ws, modulo 2^32 or 2^64
wSum(ws) == Val({ [k \in 1..Len(x[1]) |-> limbTotal(x, k) % 65536] \o <<>> : x \in {ws} })

\* a rotated right by s bits, 0 < s < 16 * Len(a)
wRotr(a, s) ==
    Val({ [i \in 1..Len(x) |->
              (x[((i - (s \div 16) - 1) % Len(x)) + 1] \div (2 ^ (s % 16)))
                  + ((x[((i - (s \div 16) - 2) % Len(x)) + 1] % (2 ^ (s % 16)))
                         * (2 ^ (16 - (s % 16))))] \o <<>> : x \in {a} })

wRotl(a, s) == Val({ wRotr(x, 16 * Len(x) - s) : x \in {a} })

\* a >> s
wShr(a, s) ==
    Val({ [i \in 1..Len(x) |->
              (IF i - (s \div 16) >= 1 THEN x[i - (s \div 16)] \div (2 ^ (s % 16)) ELSE 0)
                  + (IF i - (s \div 16) - 1 >= 1
                     THEN (x[i - (s \div 16) - 1] % (2 ^ (s % 16))) * (2 ^ (16 - (s % 16)))
                     ELSE 0)] \o <<>> : x \in {a} })

\* the bytes of a word, most significant first, and a word of its bytes
wBytes(a) ==
    Val({ [i \in 1..(2 * Len(x)) |->
              IF i % 2 = 1 THEN x[(i + 1) \div 2] \div 256 ELSE x[i \div 2] % 256] \o <<>> :
            x \in {a} })

wOfBytes(b) ==
    Val({ [i \in 1..(Len(x) \div 2) |-> 256 * x[2 * i - 1] + x[2 * i]] \o <<>> : x \in {b} })

reversed(s) == Val({ [i \in 1..Len(x) |-> x[Len(x) + 1 - i]] \o <<>> : x \in {s} })

RECURSIVE Flatten(_)
Flatten(ss) == Val({ IF x = <<>> THEN <<>> ELSE x[1] \o Flatten(Tail(x)) : x \in {ss} })

\* the message followed by the byte 0x80, by zero bytes up to lenBytes bytes before
\* the end of a block of blockSize bytes, and by its length in bits
hashPadding(msg, blockSize, lenBytes, bigEndian) ==
    Val({ LET zeros == (2 * blockSize - lenBytes - 1 - (Len(x) % blockSize)) % blockSize
              bits == 8 * Len(x)
              len == [i \in 1..lenBytes |->
                         IF lenBytes - i < 4 THEN (bits \div (256 ^ (lenBytes - i))) % 256 ELSE 0]
          IN  x \o <<128>> \o [i \in 1..zeros |-> 0] \o (IF bigEndian THEN len ELSE reversed(len)) :
            x \in {msg} })

\* the words of block number k (from 0) of the padded message
blockWords(padded, k, blockSize, wordBytes, bigEndian) ==
    [j \in 1..16 |->
        LET b == SubSeq(padded, k * blockSize + wordBytes * (j - 1) + 1,
                        k * blockSize + wordBytes * j)
        IN  wOfBytes(IF bigEndian THEN b ELSE reversed(b))] \o <<>>

wAddAll(h, v) == Val({ [i \in 1..Len(x) |-> wSum(<<x[i], y[i]>>)] \o <<>> : x \in {h}, y \in {v} })

\* crypto/md5 (called at src/auth.go line 55): MD5 of RFC 1321
md5K ==
    << <<55146, 42104>>, <<59591, 46934>>, <<9248, 28891>>, <<49597, 52974>>,
       <<62844, 4015>>, <<18311, 50730>>, <<43056, 17939>>, <<64838, 38145>>,
       <<27008, 39128>>, <<35652, 63407>>, <<65535, 23473>>, <<35164, 55230>>,
       <<27536, 4386>>, <<64920, 29075>>, <<42617, 17294>>, <<18868, 2081>>,
       <<63006, 9570>>, <<49216, 45888>>, <<9822, 23121>>, <<59830, 51114>>,
       <<54831, 4189>>, <<580, 5203>>, <<55457, 59009>>, <<59347, 64456>>,
       <<8673, 52710>>, <<49975, 2006>>, <<62677, 3463>>, <<17754, 5357>>,
       <<43491, 59653>>, <<64751, 41976>>, <<26479, 729>>, <<36138, 19594>>,
       <<65530, 14658>>, <<34673, 63105>>, <<28061, 24866>>, <<64997, 14348>>,
       <<42174, 59972>>, <<19422, 53161>>, <<63163, 19296>>, <<48831, 48240>>,
       <<10395, 32454>>, <<60065, 10234>>, <<54511, 12421>>, <<1160, 7429>>,
       <<55764, 53305>>, <<59099, 39397>>, <<8098, 31992>>, <<50348, 22117>>,
       <<62505, 8772>>, <<17194, 65431>>, <<43924, 9127>>, <<64659, 41017>>,
       <<25947, 22979>>, <<36620, 52370>>, <<65519, 62589>>, <<34180, 24017>>,
       <<28584, 32335>>, <<65068, 59104>>, <<41729, 17172>>, <<19976, 4513>>,
       <<63315, 32386>>, <<48442, 62005>>, <<10967, 53947>>, <<60294, 54161>> >>

md5S ==
    <<7, 12, 17, 22, 7, 12, 17, 22, 7, 12, 17, 22, 7, 12, 17, 22, 5, 9, 14, 20, 5, 9, 14, 20, 5, 9, 14, 20, 5, 9, 14, 20, 4, 11, 16, 23, 4, 11, 16, 23, 4, 11, 16, 23, 4, 11, 16, 23, 6, 10, 15, 21, 6, 10, 15, 21, 6, 10, 15, 21, 6, 10, 15, 21>>

md5Init == << <<26437, 8961>>, <<61389, 43913>>, <<39098, 56574>>, <<4146, 21622>> >>

md5Step(v, m, i) ==
    LET f == IF i < 16 THEN wChoose(v[2], v[3], v[4])
             ELSE IF i < 32 THEN wChoose(v[4], v[2], v[3])
             ELSE IF i < 48 THEN wXor3(v[2], v[3], v[4])
             ELSE wXor(v[3], wOrNot(v[2], v[4]))
        g == IF i < 16 THEN i
             ELSE IF i < 32 THEN (5 * i + 1) % 16
             ELSE IF i < 48 THEN (3 * i + 5) % 16
             ELSE (7 * i) % 16
    IN  <<v[4], wSum(<<v[2], wRotl(wSum(<<f, v[1], md5K[i + 1], m[g + 1]>>), md5S[i + 1])>>),
          v[2], v[3]>>

\* steps lo .. hi on the state v
RECURSIVE md5Steps(_, _, _, _)
md5Steps(v, m, lo, hi) ==
    IF lo = hi THEN md5Step(v, m, lo)
    ELSE Val({ md5Steps(u, m, ((lo + hi) \div 2) + 1, hi) :
                 u \in {md5Steps(v, m, lo, (lo + hi) \div 2)} })

RECURSIVE md5Blocks(_, _, _)
md5Blocks(h, padded, k) ==
    IF 64 * k >= Len(padded) THEN h
    ELSE Val({ md5Blocks(h2, padded, k + 1) :
                 h2 \in { Val({ wAddAll(h, md5Steps(h, m, 0, 63)) :
                                  m \in {blockWords(padded, k, 64, 4, FALSE)} }) } })

md5Sum(msg) ==
    Val({ Val({ Flatten([i \in 1..4 |-> reversed(wBytes(h[i]))] \o <<>>) :
                  h \in {md5Blocks(md5Init, p, 0)} }) :
            p \in {hashPadding(msg, 64, 8, FALSE)} })

\* crypto/sha1 (called at src/auth.go line 60): SHA-1 of FIPS 180-4
sha1Init == << <<26437, 8961>>, <<61389, 43913>>, <<39098, 56574>>, <<4146, 21622>>, <<50130, 57840>> >>

sha1K == << <<23170, 31129>>, <<28377, 60321>>, <<36635, 48348>>, <<51810, 49622>> >>

\* the message schedule extended by the words lo .. hi (counted from 0)
RECURSIVE sha1Schedule(_, _, _)
sha1Schedule(w, lo, hi) ==
    IF lo = hi
    THEN Append(w, wRotl(wXor(wXor(w[lo - 2], w[lo - 7]), wXor(w[lo - 13], w[lo - 15])), 1))
    ELSE Val({ sha1Schedule(u, ((lo + hi) \div 2) + 1, hi) :
                 u \in {sha1Schedule(w, lo, (lo + hi) \div 2)} })

sha1Step(v, w, t) ==
    LET f == IF t < 20 THEN wChoose(v[2], v[3], v[4])
             ELSE IF t < 40 THEN wXor3(v[2], v[3], v[4])
             ELSE IF t < 60 THEN wMajority(v[2], v[3], v[4])
             ELSE wXor3(v[2], v[3], v[4])
    IN  <<wSum(<<wRotl(v[1], 5), f, v[5], sha1K[(t \div 20) + 1], w[t + 1]>>),
          v[1], wRotl(v[2], 30), v[3], v[4]>>

RECURSIVE sha1Steps(_, _, _, _)
sha1Steps(v, w, lo, hi) ==
    IF lo = hi THEN sha1Step(v, w, lo)
    ELSE Val({ sha1Steps(u, w, ((lo + hi) \div 2) + 1, hi) :
                 u \in {sha1Steps(v, w, lo, (lo + hi) \div 2)} })

RECURSIVE sha1Blocks(_, _, _)
sha1Blocks(h, padded, k) ==
    IF 64 * k >= Len(padded) THEN h
    ELSE Val({ sha1Blocks(h2, padded, k + 1) :
                 h2 \in { Val({ Val({ wAddAll(h, sha1Steps(h, w, 0, 79)) :
                                        w \in {sha1Schedule(m, 16, 79)} }) :
                                  m \in {blockWords(padded, k, 64, 4, TRUE)} }) } })

sha1Sum(msg) ==
    Val({ Val({ Flatten([i \in 1..5 |-> wBytes(h[i])] \o <<>>) :
                  h \in {sha1Blocks(sha1Init, p, 0)} }) :
            p \in {hashPadding(msg, 64, 8, TRUE)} })

\* crypto/sha256 and crypto/sha512 (called at src/auth.go lines 65, 70): SHA-256
\* and SHA-512 of FIPS 180-4, which differ in the words, the constants, the
\* rotations and the number of steps
sha256K ==
    << <<17034, 12184>>, <<28983, 17553>>, <<46528, 64463>>, <<59829, 56229>>,
       <<14678, 49755>>, <<23025, 4593>>, <<37439, 33444>>, <<43804, 24277>>,
       <<55303, 43672>>, <<4739, 23297>>, <<9265, 34238>>, <<21772, 32195>>,
       <<29374, 23924>>, <<32990, 45566>>, <<39900, 1703>>, <<49563, 61812>>,
       <<58523, 27073>>, <<61374, 18310>>, <<4033, 40390>>, <<9228, 41420>>,
       <<11753, 11375>>, <<19060, 33962>>, <<23728, 43484>>, <<30457, 35034>>,
       <<38974, 20818>>, <<43057, 50797>>, <<45059, 10184>>, <<48985, 32711>>,
       <<50912, 3059>>, <<54695, 37191>>, <<1738, 25425>>, <<5161, 10599>>,
       <<10167, 2693>>, <<11803, 8504>>, <<19756, 28156>>, <<21304, 3347>>,
       <<25866, 29524>>, <<30314, 2747>>, <<33218, 51502>>, <<37490, 11397>>,
       <<41663, 59553>>, <<43034, 26187>>, <<49739, 35696>>, <<51052, 20899>>,
       <<53650, 59417>>, <<54937, 1572>>, <<62478, 13701>>, <<4202, 41072>>,
       <<6564, 49430>>, <<7735, 27656>>, <<10056, 30540>>, <<13488, 48309>>,
       <<14620, 3251>>, <<20184, 43594>>, <<23452, 51791>>, <<26670, 28659>>,
       <<29839, 33518>>, <<30885, 25455>>, <<33992, 30740>>, <<36039, 520>>,
       <<37054, 65530>>, <<42064, 27883>>, <<48889, 41975>>, <<50801, 30962>> >>

sha256Init ==
    << <<27145, 58983>>, <<47975, 44677>>, <<15470, 62322>>, <<42319, 62778>>,
       <<20750, 21119>>, <<39685, 26764>>, <<8067, 55723>>, <<23520, 52505>> >>

sha512K ==
    << <<17034, 12184, 55080, 44578>>, <<28983, 17553, 9199, 26061>>,
       <<46528, 64463, 60493, 15151>>, <<59829, 56229, 33161, 56252>>,
       <<14678, 49755, 62280, 46392>>, <<23025, 4593, 46597, 53273>>,
       <<37439, 33444, 44825, 20379>>, <<43804, 24277, 55917, 33048>>,
       <<55303, 43672, 41731, 578>>, <<4739, 23297, 17776, 28606>>,
       <<9265, 34238, 20196, 45708>>, <<21772, 32195, 54783, 46306>>,
       <<29374, 23924, 62075, 35183>>, <<32990, 45566, 15126, 38577>>,
       <<39900, 1703, 9671, 4661>>, <<49563, 61812, 53097, 9876>>,
       <<58523, 27073, 40689, 19154>>, <<61374, 18310, 14415, 9699>>,
       <<4033, 40390, 35724, 54709>>, <<9228, 41420, 30636, 40037>>,
       <<11753, 11375, 22827, 629>>, <<19060, 33962, 28326, 58499>>,
       <<23728, 43484, 48449, 64468>>, <<30457, 35034, 33553, 21429>>,
       <<38974, 20818, 61030, 57259>>, <<43057, 50797, 11700, 12816>>,
       <<45059, 10184, 39163, 8511>>, <<48985, 32711, 48879, 3812>>,
       <<50912, 3059, 15784, 36802>>, <<54695, 37191, 37642, 42789>>,
       <<1738, 25425, 57347, 33391>>, <<5161, 10599, 2574, 28272>>,
       <<10167, 2693, 18130, 12284>>, <<11803, 8504, 23590, 51494>>,
       <<19756, 28156, 23236, 10989>>, <<21304, 3347, 40341, 46047>>,
       <<25866, 29524, 35759, 25566>>, <<30314, 2747, 15479, 45736>>,
       <<33218, 51502, 18413, 44774>>, <<37490, 11397, 5250, 13627>>,
       <<41663, 59553, 19697, 868>>, <<43034, 26187, 48194, 12289>>,
       <<49739, 35696, 53496, 38801>>, <<51052, 20899, 1620, 48688>>,
       <<53650, 59417, 55023, 21016>>, <<54937, 1572, 21861, 43280>>,
       <<62478, 13701, 22385, 8234>>, <<4202, 41072, 12987, 53688>>,
       <<6564, 49430, 47314, 53448>>, <<7735, 27656, 20801, 43859>>,
       <<10056, 30540, 57230, 60313>>, <<13488, 48309, 57755, 18600>>,
       <<14620, 3251, 50633, 23139>>, <<20184, 43594, 58177, 35531>>,
       <<23452, 51791, 30563, 58227>>, <<26670, 28659, 54962, 47267>>,
       <<29839, 33518, 24047, 45820>>, <<30885, 25455, 17175, 12128>>,
       <<33992, 30740, 41456, 43890>>, <<36039, 520, 6756, 14828>>,
       <<37054, 65530, 9059, 7720>>, <<42064, 27883, 56962, 48617>>,
       <<48889, 41975, 45766, 30997>>, <<50801, 30962, 58226, 21291>>,
       <<51751, 16078, 59942, 24988>>, <<53638, 47303, 8640, 49671>>,
       <<60122, 32214, 52704, 60190>>, <<62845, 20351, 61038, 53624>>,
       <<1776, 26538, 29207, 28602>>, <<2659, 32197, 41672, 39078>>,
       <<4415, 38916, 48889, 3502>>, <<7025, 2869, 4892, 18203>>,
       <<10459, 30709, 8964, 32132>>, <<13002, 43899, 16583, 9363>>,
       <<15518, 48650, 5577, 48828>>, <<17181, 26564, 39952, 3404>>,
       <<19653, 54462, 52030, 17078>>, <<22911, 10652, 64613, 32298>>,
       <<24523, 28587, 15062, 64236>>, <<27716, 6540, 19015, 22551>> >>

sha512Init ==
    << <<27145, 58983, 62396, 51464>>, <<47975, 44677, 33994, 42811>>,
       <<15470, 62322, 65172, 63531>>, <<42319, 62778, 24349, 14065>>,
       <<20750, 21119, 44518, 33489>>, <<39685, 26764, 11070, 27679>>,
       <<8067, 55723, 64321, 48491>>, <<23520, 52505, 4990, 8569>> >>

\* the rotations and shifts of the functions Sigma0, Sigma1, sigma0, sigma1
sha256Rot == << <<2, 13, 22>>, <<6, 11, 25>>, <<7, 18, 3>>, <<17, 19, 10>> >>

sha512Rot == << <<28, 34, 39>>, <<14, 18, 41>>, <<1, 8, 7>>, <<19, 61, 6>> >>

bigSigma(x, r) == wXor3(wRotr(x, r[1]), wRotr(x, r[2]), wRotr(x, r[3]))

smallSigma(x, r) == wXor3(wRotr(x, r[1]), wRotr(x, r[2]), wShr(x, r[3]))

RECURSIVE sha2Schedule(_, _, _, _)
sha2Schedule(w, rot, lo, hi) ==
    IF lo = hi
    THEN Append(w, wSum(<<smallSigma(w[lo - 1], rot[4]), w[lo - 6],
                          smallSigma(w[lo - 14], rot[3]), w[lo - 15]>>))
    ELSE Val({ sha2Schedule(u, rot, ((lo + hi) \div 2) + 1, hi) :
                 u \in {sha2Schedule(w, rot, lo, (lo + hi) \div 2)} })

sha2Step(v, w, K, rot, t) ==
    Val({ <<wSum(<<t1, t2>>), v[1], v[2], v[3], wSum(<<v[4], t1>>), v[5], v[6], v[7]>> :
            t1 \in {wSum(<<v[8], bigSigma(v[5], rot[2]), wChoose(v[5], v[6], v[7]), K[t + 1],
                           w[t + 1]>>)},
            t2 \in {wSum(<<bigSigma(v[1], rot[1]), wMajority(v[1], v[2], v[3])>>)} })

RECURSIVE sha2Steps(_, _, _, _, _, _)
sha2Steps(v, w, K, rot, lo, hi) ==
    IF lo = hi THEN sha2Step(v, w, K, rot, lo)
    ELSE Val({ sha2Steps(u, w, K, rot, ((lo + hi) \div 2) + 1, hi) :
                 u \in {sha2Steps(v, w, K, rot, lo, (lo + hi) \div 2)} })

RECURSIVE sha2Blocks(_, _, _, _, _, _)
sha2Blocks(h, padded, k, K, rot, wordBytes) ==
    IF 16 * wordBytes * k >= Len(padded) THEN h
    ELSE Val({ sha2Blocks(h2, padded, k + 1, K, rot, wordBytes) :
                 h2 \in { Val({ Val({ wAddAll(h, sha2Steps(h, w, K, rot, 0, Len(K) - 1)) :
                                        w \in {sha2Schedule(m, rot, 16, Len(K) - 1)} }) :
                                  m \in {blockWords(padded, k, 16 * wordBytes, wordBytes,
                                                    TRUE)} }) } })

sha256Sum(msg) ==
    Val({ Val({ Flatten([i \in 1..8 |-> wBytes(h[i])] \o <<>>) :
                  h \in {sha2Blocks(sha256Init, p, 0, sha256K, sha256Rot, 4)} }) :
            p \in {hashPadding(msg, 64, 8, TRUE)} })

sha512Sum(msg) ==
    Val({ Val({ Flatten([i \in 1..8 |-> wBytes(h[i])] \o <<>>) :
                  h \in {sha2Blocks(sha512Init, p, 0, sha512K, sha512Rot, 8)} }) :
            p \in {hashPadding(msg, 128, 16, TRUE)} })

\* lines 116-133: double(dst, src, xor): src shifted left by one bit as one number
\* of 128 bits, xor'ed into the last byte when a bit was shifted out
double(src, x) ==
    Val({ [i \in 1..16 |->
              IF i < 16 THEN ((2 * y[i]) % 256) + (y[i + 1] \div 128)
              ELSE Xor8((2 * y[16]) % 256, IF y[1] >= 128 THEN x ELSE 0)] \o <<>> :
            y \in {src} })

\* lines 135-153: xor(dst, src): dst ^ src on 16 bytes
xor(into, src) == Val({ [i \in 1..16 |-> Xor8(x[i], y[i])] \o <<>> : x \in {into}, y \in {src} })

\* lines 110-114: the value pad(block) returns
padded(block) ==
    Val({ x \o [i \in 1..(16 - Len(x)) |-> IF i = 1 THEN 128 ELSE 0] : x \in {block} })

\* lines 89-94: all but the last block chained through the cipher; the result is
\* the chaining value and what is left of the payload
RECURSIVE cmacBlocks(_, _, _)
cmacBlocks(w, cmac, payload) ==
    IF Len(payload) > 16
    THEN Val({ cmacBlocks(w, c, rest) :
                 c \in {aesEncrypt(w, xor(cmac, SubSeq(payload, 1, 16)))},
                 rest \in {SubSeq(payload, 17, Len(payload))} })
    ELSE <<cmac, payload>>

\* lines 74-108: aes.NewCipher accepts keys of 16, 24 and 32 bytes; for any other
\* key calcCMAC_AES panics with its error (lines 77-80)
calcCMAC_AES(payload, key) ==
    IF Len(key) \notin {16, 24, 32} THEN <<PanicCipher>> ELSE
    LET zero == [i \in 1..16 |-> 0] \o <<>>
    IN  Val({ Val({ Val({ aesEncrypt(w, IF Len(c[2]) = 16
                                        THEN xor(xor(c[1], c[2]), k1)
                                        ELSE xor(xor(c[1], padded(c[2])), double(k1, 135))) :
                            c \in {cmacBlocks(w, zero, payload)} }) :
                      k1 \in {double(aesEncrypt(w, zero), 135)} }) :
                w \in {expandKey(key)} })

\* lines 54-72: the digest of the key followed by the payload; append(key,
\* payload...) leaves key and payload as they are
calcDigest_MD5(payload, key) == md5Sum(key \o payload)

calcDigest_SHA1(payload, key) == sha1Sum(key \o payload)

calcDigest_SHA256(payload, key) == SubSeq(sha256Sum(key \o payload), 1, 20)

calcDigest_SHA512(payload, key) == SubSeq(sha512Sum(key \o payload), 1, 20)

\* lines 40-52: a.CalcDigest(payload, key), the function of the algorithm's entry
CalcDigest(a, payload, key) ==
    CASE a.CalcDigest = "calcDigest_MD5" -> calcDigest_MD5(payload, key)
      [] a.CalcDigest = "calcDigest_SHA1" -> calcDigest_SHA1(payload, key)
      [] a.CalcDigest = "calcDigest_SHA256" -> calcDigest_SHA256(payload, key)
      [] a.CalcDigest = "calcDigest_SHA512" -> calcDigest_SHA512(payload, key)
      [] a.CalcDigest = "calcCMAC_AES" -> calcCMAC_AES(payload, key)

\* binary.BigEndian: a uint32 as four bytes.  verifyMAC compares the
\* key identifier it reads (line 201) with uint32(opt.KeyID) (line 202): two
\* uint32 are equal when their four bytes are, and the bytes are what is compared
PutUint32(n) ==
    <<(n \div 16777216) % 256, (n \div 65536) % 256, (n \div 256) % 256, n % 256>>

\* lines 178-184.  The result is the buffer after the call; when CalcDigest panics
\* (line 181) nothing is written and the panic leaves appendMAC.
appendMAC(buf, o, key) ==
    LET a == algorithm(o.Type)
        payload == buf
    IN  Val({ IF digest = <<PanicCipher>>
              THEN <<PanicCipher>>
              ELSE buf \o PutUint32(o.KeyID) \o digest :
                digest \in {CalcDigest(a, payload, key)} })

\* lines 90-94: the length of the last block, after the loop has consumed the
\* blocks before it (the loop runs while more than 16 bytes are left)
lastBlockLen(n) == IF n > 16 THEN ((n - 1) % 16) + 1 ELSE n

\* lines 110-114: pad(block), block being the bytes from + 1 .. to of the array mem.
\* pad := make([]byte, 16-len(block)); pad[0] = 0x80; append(block, pad...): the
\* capacity of block reaches to the end of mem, so append writes the padding into
\* mem right behind the block when it fits there, and into a new array otherwise.
\* The result is mem after the call.
pad(mem, from, to) ==
    LET n == 16 - (to - from)
    IN  IF (to - from) + n <= Len(mem) - from
        THEN [i \in 1..Len(mem) |->
                 IF i = to + 1 THEN 128 ELSE IF i > to + 1 /\ i <= to + n THEN 0 ELSE mem[i]]
        ELSE mem

\* lines 54-108: what CalcDigest(payload, key) leaves in the array payload is a slice
\* of, payload being its first payloadLen bytes.  The hashes append the payload to
\* the key (lines 55, 60, 65, 70), which writes nothing to payload's array; the CMAC
\* pads its last block when that is shorter than 16 bytes (lines 97-103), after the
\* cipher has accepted the key (lines 77-80).
CalcDigestWrites(a, mem, payloadLen, key) ==
    IF /\ a.CalcDigest = "calcCMAC_AES"
       /\ Len(key) \in {16, 24, 32}
       /\ lastBlockLen(payloadLen) # 16
    THEN pad(mem, payloadLen - lastBlockLen(payloadLen), payloadLen)
    ELSE mem

\* lines 186-214, without the comparison of the key identifiers
verifyMACAnyKeyID(buf, o, key) ==
    LET a == algorithm(o.Type)
        macLen == 4 + a.DigestSize
        remain == Len(buf) - headerSize
        payloadLen == Len(buf) - macLen
        payload == SubSeq(buf, 1, payloadLen)
        after == CalcDigestWrites(a, buf, payloadLen, key)
        mac == SubSeq(after, payloadLen + 1, Len(after))
    IN  IF remain < macLen \/ remain % 4 # 0
        THEN [err |-> ErrAuthFailed, buf |-> buf, steps |-> <<"len">>]
        ELSE Val({ IF digest = <<PanicCipher>>
                   THEN [err |-> PanicCipher, buf |-> buf, steps |-> <<"len", "CalcDigest">>]
                   ELSE IF digest # SubSeq(mac, 5, Len(mac))
                   THEN [err |-> ErrAuthFailed, buf |-> after, steps |-> <<"len", "CalcDigest", "compare">>]
                   ELSE [err |-> NoError, buf |-> after, steps |-> <<"len", "CalcDigest", "compare">>] :
                     digest \in {CalcDigest(a, payload, key)} })

\* lines 186-214, the length compared with remain <= macLen
verifyMACLenLE(buf, o, key) ==
    LET a == algorithm(o.Type)
        macLen == 4 + a.DigestSize
        remain == Len(buf) - headerSize
        payloadLen == Len(buf) - macLen
        keyID == SubSeq(buf, payloadLen + 1, payloadLen + 4)
        payload == SubSeq(buf, 1, payloadLen)
        after == CalcDigestWrites(a, buf, payloadLen, key)
        mac == SubSeq(after, payloadLen + 1, Len(after))
    IN  IF remain <= macLen \/ remain % 4 # 0
        THEN [err |-> ErrAuthFailed, buf |-> buf, steps |-> <<"len">>]
        ELSE IF keyID # PutUint32(o.KeyID)
        THEN [err |-> ErrAuthFailed, buf |-> buf, steps |-> <<"len", "keyID">>]
        ELSE Val({ IF digest = <<PanicCipher>>
                   THEN [err |-> PanicCipher, buf |-> buf, steps |-> <<"len", "keyID", "CalcDigest">>]
                   ELSE IF digest # SubSeq(mac, 5, Len(mac))
                   THEN [err |-> ErrAuthFailed, buf |-> after,
                         steps |-> <<"len", "keyID", "CalcDigest", "compare">>]
                   ELSE [err |-> NoError, buf |-> after,
                         steps |-> <<"len", "keyID", "CalcDigest", "compare">>] :
                     digest \in {CalcDigest(a, payload, key)} })

\* lines 186-214, with an error of its own for a key identifier that differs
verifyMACTellsKeyID(buf, o, key) ==
    LET a == algorithm(o.Type)
        macLen == 4 + a.DigestSize
        remain == Len(buf) - headerSize
        payloadLen == Len(buf) - macLen
        keyID == SubSeq(buf, payloadLen + 1, payloadLen + 4)
        payload == SubSeq(buf, 1, payloadLen)
        after == CalcDigestWrites(a, buf, payloadLen, key)
        mac == SubSeq(after, payloadLen + 1, Len(after))
    IN  IF remain < macLen \/ remain % 4 # 0
        THEN [err |-> ErrAuthFailed, buf |-> buf, steps |-> <<"len">>]
        ELSE IF keyID # PutUint32(o.KeyID)
        THEN [err |-> "unknown key id", buf |-> buf, steps |-> <<"len", "keyID">>]
        ELSE Val({ IF digest = <<PanicCipher>>
                   THEN [err |-> PanicCipher, buf |-> buf, steps |-> <<"len", "keyID", "CalcDigest">>]
                   ELSE IF digest # SubSeq(mac, 5, Len(mac))
                   THEN [err |-> ErrAuthFailed, buf |-> after,
                         steps |-> <<"len", "keyID", "CalcDigest", "compare">>]
                   ELSE [err |-> NoError, buf |-> after,
                         steps |-> <<"len", "keyID", "CalcDigest", "compare">>] :
                     digest \in {CalcDigest(a, payload, key)} })

\* lines 186-214.  buf is the slice's bytes; payload := buf[:payloadLen] and
\* mac := buf[payloadLen:] are slices of the same array, so mac is read where
\* CalcDigest may have written (line 209 runs after line 208; the key identifier
\* was read before, line 201).  The result: the error returned, the bytes of buf
\* after the call, and what was done in order.  When CalcDigest panics (lines
\* 77-80, a key the cipher does not accept) the panic leaves verifyMAC: nothing is
\* compared and no error is returned; err then holds the panic's value.
verifyMAC(buf, o, key) ==
    LET a == algorithm(o.Type)
        macLen == 4 + a.DigestSize
        remain == Len(buf) - headerSize
        payloadLen == Len(buf) - macLen
        keyID == SubSeq(buf, payloadLen + 1, payloadLen + 4)
        payload == SubSeq(buf, 1, payloadLen)
        after == CalcDigestWrites(a, buf, payloadLen, key)
        mac == SubSeq(after, payloadLen + 1, Len(after))
    IN  IF remain < macLen \/ remain % 4 # 0
        THEN [err |-> ErrAuthFailed, buf |-> buf, steps |-> <<"len">>]
        ELSE IF keyID # PutUint32(o.KeyID)
        THEN [err |-> ErrAuthFailed, buf |-> buf, steps |-> <<"len", "keyID">>]
        ELSE Val({ IF digest = <<PanicCipher>>
                   THEN [err |-> PanicCipher, buf |-> buf, steps |-> <<"len", "keyID", "CalcDigest">>]
                   ELSE IF digest # SubSeq(mac, 5, Len(mac))
                   THEN [err |-> ErrAuthFailed, buf |-> after,
                         steps |-> <<"len", "keyID", "CalcDigest", "compare">>]
                   ELSE [err |-> NoError, buf |-> after,
                         steps |-> <<"len", "keyID", "CalcDigest", "compare">>] :
                     digest \in {CalcDigest(a, payload, key)} })

\* one bit of a byte (or of a uint16) changed
FlipBit(v, b) == IF (v \div (2 ^ b)) % 2 = 1 THEN v - 2 ^ b ELSE v + 2 ^ b

\* --- inputs ---

AuthTypes == {AuthMD5, AuthSHA1, AuthSHA256, AuthSHA512, AuthAES128}

\* the longest textual key tried
MaxKeyChars == 68

HexChars == Ascii(Digits \o SubSeq(Lower, 1, 6) \o SubSeq(Upper, 1, 6))
RawChars == Ascii(SubSeq(Lower, 7, 26))

\* textual keys of every length: of hexadecimal digits only, of no hexadecimal
\* digit, and of hexadecimal digits up to a last character that is none
KeyText(n, kind) ==
    [i \in 1..n |->
        IF kind = "raw" \/ (kind = "bad" /\ i = n)
        THEN RawChars[((i - 1) % Len(RawChars)) + 1]
        ELSE HexChars[((i * 7) % Len(HexChars)) + 1]]

\* src/auth_test.go:55-60, 89-91
KeyExamples ==
    { Ascii(<<"c","v","u","Z","y","N","4","C","8","H","X","8","h","N","c","A","W","D","W","p">>),
      Ascii(<<"6","3","7","6","7","5","5","a","7","9","4","e","3","4","4","3","3","8","4","8",
              "5","8","3","8","6","8","4","e","6","3","4","1","5","7","4","4","5","7","7","0">>),
      Ascii(<<"6","8","6","6","3","0","3","3","7","3","6","f","7","7","7","0",
              "6","5","6","8","7","0","7","1","6","4","3","0","4","0","4","9">>),
      Ascii(<<"6","8","6","6","3","0","3","3","7","3","6","f","7","7","7","0",
              "6","5","6","8","7","0","7","1","6","4","3","0","4","0","4","9",
              "f","e","f","e","f","e","f","e">>),
      Ascii(<<"h","f","0","3","s","o","w","p","e","h","p","q","d","0","@","I">>) }

KeyInputs ==
    { KeyText(n, kind) : n \in 0..MaxKeyChars, kind \in {"hex", "raw", "bad"} } \cup KeyExamples

KeyIDInputs == {1, 65535}

HeaderInputs ==
    { [i \in 1..headerSize |-> IF i = 1 THEN 227 ELSE 0],
      [i \in 1..headerSize |-> (i * 37) % 256] }

\* --- the functions applied: decode the key, append the MAC, verify it ---

\* decodeAuthKey applied to the options
DecodeKey ==
    /\ apc = "start"
    /\ LET d == decodeAuthKey(authOpt)
       IN  /\ authKey' = d.key
           /\ authErr' = d.err
           /\ verifyKey' = d.key
           /\ apc' = IF d.err = NoError THEN "decoded" ELSE "done"
    /\ UNCHANGED <<authOpt, verifyOpt, macBuf, tampered, verifyBuf, verifySteps,
                   pipeVars, codecVars, queryVars, concVars, bitVars>>

\* appendMAC applied to the header
AppendMAC ==
    /\ apc = "decoded"
    /\ macBuf' = appendMAC(macBuf, authOpt, authKey)
    /\ apc' = "appended"
    /\ UNCHANGED <<authOpt, authKey, authErr, verifyOpt, verifyKey, tampered, verifyBuf, verifySteps,
                   pipeVars, codecVars, queryVars, concVars, bitVars>>

\* one bit of the key changed: the lowest or the highest bit of its first or of
\* its last byte
TamperKey ==
    /\ apc = "appended"
    /\ tampered = "nothing"
    /\ \E i \in {1, Len(verifyKey)}, b \in {0, 7} :
          verifyKey' = [verifyKey EXCEPT ![i] = FlipBit(@, b)]
    /\ tampered' = "key"
    /\ UNCHANGED <<apc, authOpt, authKey, authErr, verifyOpt, macBuf, verifyBuf, verifySteps,
                   pipeVars, codecVars, queryVars, concVars, bitVars>>

\* one bit of the key identifier changed
TamperKeyID ==
    /\ apc = "appended"
    /\ tampered = "nothing"
    /\ \E b \in 0..15 : verifyOpt' = [verifyOpt EXCEPT !.KeyID = FlipBit(@, b)]
    /\ tampered' = "keyID"
    /\ UNCHANGED <<apc, authOpt, authKey, authErr, verifyKey, macBuf, verifyBuf, verifySteps,
                   pipeVars, codecVars, queryVars, concVars, bitVars>>

\* one bit of the header changed after the MAC was appended: any bit of its first
\* byte (LiVnMode) or of its last byte
TamperHeader ==
    /\ apc = "appended"
    /\ tampered = "nothing"
    /\ \E i \in {1, headerSize}, b \in 0..7 : macBuf' = [macBuf EXCEPT ![i] = FlipBit(@, b)]
    /\ tampered' = "header"
    /\ UNCHANGED <<apc, authOpt, authKey, authErr, verifyOpt, verifyKey, verifyBuf, verifySteps,
                   pipeVars, codecVars, queryVars, concVars, bitVars>>

\* verifyMAC applied to the buffer
VerifyMAC ==
    /\ apc = "appended"
    /\ \E r \in {verifyMAC(macBuf, verifyOpt, verifyKey)} :
           /\ authErr' = r.err
           /\ macBuf' = r.buf
           /\ verifySteps' = r.steps
    /\ verifyBuf' = macBuf
    /\ apc' = "verified"
    /\ UNCHANGED <<authOpt, authKey, verifyOpt, verifyKey, tampered,
                   pipeVars, codecVars, queryVars, concVars, bitVars>>

InitAuth ==
    /\ BitIdle
    /\ ConcIdle
    /\ PipeIdle
    /\ CodecIdle
    /\ QueryIdle
    /\ apc = "start"
    /\ \E t \in AuthTypes, k \in KeyExamples, id \in KeyIDInputs :
          /\ authOpt = [Type |-> t, Key |-> k, KeyID |-> id]
          /\ verifyOpt = authOpt
    /\ macBuf \in HeaderInputs
    /\ authKey = NoKey
    /\ verifyKey = NoKey
    /\ authErr = NoError
    /\ tampered = "nothing"
    /\ verifyBuf = <<>>
    /\ verifySteps = <<>>

NextAuth ==
    \/ DecodeKey
    \/ AppendMAC
    \/ TamperKey
    \/ TamperKeyID
    \/ TamperHeader
    \/ VerifyMAC

\* a header authenticated, possibly tampered with, and verified
SpecAuth == InitAuth /\ [][NextAuth]_vars

\* every algorithm with every textual key, and the header of a request
InitDecode ==
    /\ BitIdle
    /\ ConcIdle
    /\ PipeIdle
    /\ CodecIdle
    /\ QueryIdle
    /\ apc = "start"
    /\ \E t \in AuthTypes, k \in KeyInputs :
          /\ authOpt = [Type |-> t, Key |-> k, KeyID |-> 1]
          /\ verifyOpt = authOpt
    /\ macBuf = [i \in 1..headerSize |-> IF i = 1 THEN 227 ELSE 0]
    /\ authKey = NoKey
    /\ verifyKey = NoKey
    /\ authErr = NoError
    /\ tampered = "nothing"
    /\ verifyBuf = <<>>
    /\ verifySteps = <<>>

NextDecode ==
    \/ DecodeKey
    \/ AppendMAC

\* a textual key decoded and used
SpecDecode == InitDecode /\ [][NextDecode]_vars

\* --- verifyMAC on received buffers of any length ---

\* the longest extension between header and MAC, in 4-byte words
MaxExtWords == 4

\* the most bytes cut off the end of a buffer
MaxCut == 8

\* the bytes of an extension: none of its words is a key identifier of KeyIDInputs
ExtBytes(n) == [i \in 1..n |-> (i * 11 + 160) % 256]

\* the sender puts extension bytes behind the header before appendMAC is applied
AddExtension ==
    /\ apc = "decoded"
    /\ Len(macBuf) = headerSize
    /\ \E w \in 1..MaxExtWords : macBuf' = macBuf \o ExtBytes(4 * w)
    /\ UNCHANGED <<apc, authOpt, authKey, authErr, verifyOpt, verifyKey, tampered, verifyBuf,
                   verifySteps, pipeVars, codecVars, queryVars, concVars, bitVars>>

\* the buffer arrives shorter (bytes cut off its end) or longer by up to 3 bytes
TamperLength ==
    /\ apc = "appended"
    /\ tampered = "nothing"
    /\ \/ \E k \in 1..MaxCut : macBuf' = SubSeq(macBuf, 1, Len(macBuf) - k)
       \/ \E k \in 1..3 : macBuf' = macBuf \o [i \in 1..k |-> 0]
    /\ tampered' = "length"
    /\ UNCHANGED <<apc, authOpt, authKey, authErr, verifyOpt, verifyKey, verifyBuf, verifySteps,
                   pipeVars, codecVars, queryVars, concVars, bitVars>>

\* one bit of the digest changed: the lowest or the highest bit of its first or
\* of its last byte
TamperDigest ==
    /\ apc = "appended"
    /\ tampered = "nothing"
    /\ \E i \in {1, algorithm(authOpt.Type).DigestSize}, b \in {0, 7} :
          macBuf' = [macBuf EXCEPT ![Len(macBuf) - algorithm(authOpt.Type).DigestSize + i] =
                                       FlipBit(@, b)]
    /\ tampered' = "digest"
    /\ UNCHANGED <<apc, authOpt, authKey, authErr, verifyOpt, verifyKey, verifyBuf, verifySteps,
                   pipeVars, codecVars, queryVars, concVars, bitVars>>

\* one header and one key identifier, every algorithm and every example key
InitVerify ==
    /\ InitAuth
    /\ authOpt.KeyID = 1
    /\ macBuf = [i \in 1..headerSize |-> (i * 37) % 256]

NextVerify ==
    \/ DecodeKey
    \/ AddExtension
    \/ AppendMAC
    \/ TamperLength
    \/ TamperKeyID
    \/ TamperDigest
    \/ VerifyMAC

\* a header, possibly followed by an extension, authenticated, received with
\* another length, key identifier or digest, and verified
SpecVerify == InitVerify /\ [][NextVerify]_vars

\* ------------------------------------------------------------------------
\* The setters of the header byte LiVnMode (src/ntp.go 613-631)
\* ------------------------------------------------------------------------

\* how many setters are applied one after the other
MaxSetters == 2

\* the values of the three sub-fields: 2, 3 and 3 bits
LeapValues == 0..3

VersionValues == 0..7

ModeValues == 0..7

\* m.setLeap(li)
SetLeap ==
    /\ lvSteps < MaxSetters
    /\ \E li \in LeapValues :
          /\ lvByte' = setLeap(lvByte, li)
          /\ lvSet' = <<"leap", li>>
    /\ lvBefore' = lvByte
    /\ lvSteps' = lvSteps + 1
    /\ UNCHANGED <<pipeVars, codecVars, queryVars, authVars, concVars>>

\* m.setVersion(v)
SetVersion ==
    /\ lvSteps < MaxSetters
    /\ \E v \in VersionValues :
          /\ lvByte' = setVersion(lvByte, v)
          /\ lvSet' = <<"version", v>>
    /\ lvBefore' = lvByte
    /\ lvSteps' = lvSteps + 1
    /\ UNCHANGED <<pipeVars, codecVars, queryVars, authVars, concVars>>

\* m.setMode(md)
SetMode ==
    /\ lvSteps < MaxSetters
    /\ \E md \in ModeValues :
          /\ lvByte' = setMode(lvByte, md)
          /\ lvSet' = <<"mode", md>>
    /\ lvBefore' = lvByte
    /\ lvSteps' = lvSteps + 1
    /\ UNCHANGED <<pipeVars, codecVars, queryVars, authVars, concVars>>

InitBits ==
    /\ ConcIdle
    /\ AuthIdle
    /\ PipeIdle
    /\ CodecIdle
    /\ QueryIdle
    /\ lvByte \in 0..(ByteBase - 1)
    /\ lvBefore = lvByte
    /\ lvSet = NoSetter
    /\ lvSteps = 0

NextBits == SetLeap \/ SetVersion \/ SetMode

\* setters applied to a header byte
SpecBits == InitBits /\ [][NextBits]_vars

\* ------------------------------------------------------------------------
\* Two queries run concurrently (src/ntp.go 742-879, src/kod.go, src/auth.go)
\* ------------------------------------------------------------------------

\* the variables of one call of QueryWithOptions: its parameters, locals and results
Locals ==
    [ qpc |-> qpc, opt |-> opt, con |-> con, netlog |-> netlog, deadline |-> deadline,
      rnd |-> rnd, xmitMsg |-> xmitMsg, sendTime |-> sendTime, wire |-> wire,
      reply |-> reply, recvMsg |-> recvMsg, recvTime |-> recvTime, outcome |-> outcome,
      qerr |-> qerr, qresp |-> qresp, tvNow |-> tvNow, tvTime |-> tvTime ]

\* a call that has not made its first step
StartLocals(o) ==
    [ qpc |-> "start", opt |-> o, con |-> "none", netlog |-> <<>>, deadline |-> Zero64,
      rnd |-> "unread", xmitMsg |-> NoHeader, sendTime |-> Zero64, wire |-> <<>>,
      reply |-> NoHeader, recvMsg |-> NoHeader, recvTime |-> Zero64, outcome |-> "running",
      qerr |-> NoError, qresp |-> NoResponse, tvNow |-> Zero64, tvTime |-> Zero64 ]

\* the options of the two callers: the defaults, a local address with a TTL, and
\* a version out of range
ConcOptions ==
    { [Version |-> 0, Timeout |-> Zero64, LocalAddress |-> "", TTL |-> 0],
      [Version |-> defaultNtpVersion, Timeout |-> Second, LocalAddress |-> "192.0.2.1",
       TTL |-> 1],
      [Version |-> defaultNtpVersion + VersionSlack, Timeout |-> Zero64,
       LocalAddress |-> "", TTL |-> 0] }

\* the clock reading and the datagrams of the concurrent runs
ConcClock == Seconds(86400)

ConcDeadlines == { Add64(ConcClock, d) : d \in {defaultTimeout, Second} }

ConcNtpTime == toNtpTime(ConcClock)

ConcReplyTimes ==
    { <<NtpTime(U64(86400), Zero64), NtpTime(U64(86401), Zero64)>>,
      <<NtpTime(U64(86401), Zero64), NtpTime(U64(86400), Zero64)>> }

ConcReplies(x) ==
    { Header(36, 1, Zero64, Zero64, ValRefTime, org, p[1], p[2]) :
        org \in {x.TransmitTime, ReplyOther}, p \in ConcReplyTimes }

\* the running call has read the clock at ConcClock only and got one of ConcReplies
ConcInputs ==
    /\ deadline = Zero64 \/ deadline \in ConcDeadlines
    /\ sendTime \in {Zero64, ConcNtpTime}
    /\ recvTime \in {Zero64, ConcNtpTime}
    /\ reply = NoHeader \/ reply \in ConcReplies(xmitMsg)

\* a step of the running call: it reads and writes its own variables only
QueryStep == turn # 0 /\ NextQuery /\ ConcInputs'

\* the scheduler runs the other call
Switch ==
    /\ turn # 0
    /\ other.outcome = "running"
    /\ other' = Locals
    /\ turn' = 3 - turn
    /\ qpc' = other.qpc
    /\ opt' = other.opt
    /\ con' = other.con
    /\ netlog' = other.netlog
    /\ deadline' = other.deadline
    /\ rnd' = other.rnd
    /\ xmitMsg' = other.xmitMsg
    /\ sendTime' = other.sendTime
    /\ wire' = other.wire
    /\ reply' = other.reply
    /\ recvMsg' = other.recvMsg
    /\ recvTime' = other.recvTime
    /\ outcome' = other.outcome
    /\ qerr' = other.qerr
    /\ qresp' = other.qresp
    /\ tvNow' = other.tvNow
    /\ tvTime' = other.tvTime
    /\ UNCHANGED <<pkg, pipeVars, codecVars, authVars, bitVars>>

\* line 782: the panic is recovered by no function of the package; when the
\* caller does not recover it either, the Go runtime ends the program and with
\* it the other call
ProgramExit ==
    /\ turn # 0
    /\ outcome = "panicked"
    /\ other.outcome = "running"
    /\ other' = [other EXCEPT !.outcome = "killed"]
    /\ UNCHANGED <<turn, pkg, queryVars, pipeVars, codecVars, authVars, bitVars>>

InitConcurrent ==
    /\ BitIdle
    /\ AuthIdle
    /\ PipeIdle
    /\ CodecIdle
    /\ qpc = "start"
    /\ opt \in ConcOptions
    /\ con = "none"
    /\ netlog = <<>>
    /\ deadline = Zero64
    /\ rnd = "unread"
    /\ xmitMsg = NoHeader
    /\ sendTime = Zero64
    /\ wire = <<>>
    /\ reply = NoHeader
    /\ recvMsg = NoHeader
    /\ recvTime = Zero64
    /\ outcome = "running"
    /\ qerr = NoError
    /\ qresp = NoResponse
    /\ tvNow = Zero64
    /\ tvTime = Zero64
    /\ \E o \in ConcOptions : other = StartLocals(o)
    /\ turn = 1
    /\ pkg = PackageState

NextConcurrent ==
    \/ QueryStep
    \/ Switch
    \/ ProgramExit

\* two calls of QueryWithOptions from two goroutines
SpecConcurrent == InitConcurrent /\ [][NextConcurrent]_vars

\* ------------------------------------------------------------------------
\* Response.Validate: claims C1 - C4
\* ------------------------------------------------------------------------

Validated == pc = "validated"

\* the six rules of the specification, each stated on its own
RuleViolated(i, r) ==
    CASE i = 1 -> r.Stratum = 0
      [] i = 2 -> r.Stratum >= 16
      [] i = 3 -> r.Leap = 3
      [] i = 4 -> SGt(Sub64(r.Time, r.ReferenceTime), Seconds(131072))
      [] i = 5 -> SGt(Add64(SDiv(r.RootDelay, 2), r.RootDispersion), Seconds(16))
      [] i = 6 -> SLt(r.Time, r.ReferenceTime)

RuleError(i) ==
    CASE i = 1 -> "kiss of death received"
      [] i = 2 -> "invalid stratum received"
      [] i = 3 -> "invalid leap second"
      [] i = 4 -> "server clock not fresh"
      [] i = 5 -> "invalid dispersion"
      [] i = 6 -> "invalid time reported"

ViolatedRules(r) == { i \in 1..6 : RuleViolated(i, r) }

LowestRule(S) == CHOOSE i \in S : \A j \in S : i <= j

\* C1: Validate returns the error of the lowest-numbered violated rule; a
\* response with stratum 0 is reported as kiss-of-death whatever else it holds.
C1_FirstFailureWins ==
    Validated =>
        /\ ViolatedRules(resp) # {} => verr = RuleError(LowestRule(ViolatedRules(resp)))
        /\ resp.Stratum = 0 => verr = "kiss of death received"

\* a stratum-0 response that violates three more rules has been validated, and so
\* has a response whose violated rules are exactly 3 and 5
C1_Witness ==
    /\ Validated
    /\ \/ {1, 3, 4, 5} \subseteq ViolatedRules(resp)
       \/ ViolatedRules(resp) = {3, 5}

\* C2: Validate returns nil exactly when 1 <= Stratum <= 15, Leap # 3,
\* 0 <= Time - ReferenceTime <= 2^17 s and RootDelay/2 + RootDispersion <= 16 s
\* (durations in whole nanoseconds, as the fields of Response hold them).
C2_ValidIff ==
    Validated =>
        ( verr = NoError <=>
            /\ 1 <= resp.Stratum /\ resp.Stratum <= 15
            /\ resp.Leap # LeapNotInSync
            /\ SLe(Zero64, Sub64(resp.Time, resp.ReferenceTime))
            /\ SLe(Sub64(resp.Time, resp.ReferenceTime), Seconds(131072))
            /\ SLe(Add64(SDiv(resp.RootDelay, 2), resp.RootDispersion), Seconds(16)) )

\* a response with stratum 16 and nothing else wrong has been rejected
C2_Witness ==
    /\ Validated
    /\ resp.Stratum = 16
    /\ ViolatedRules(resp) = {2}
    /\ verr # NoError

OtherRulesHold(r, i) == ViolatedRules(r) \ {i} = {}

\* C3: with the other rules satisfied, a reference time exactly 2^17 s before
\* the transmit time is accepted and one 2^17 + 1 s before it is rejected as
\* "server clock not fresh".
C3_FreshnessBoundary ==
    Validated /\ OtherRulesHold(resp, 4) =>
        /\ Sub64(resp.Time, resp.ReferenceTime) = Seconds(131072) => verr = NoError
        /\ Sub64(resp.Time, resp.ReferenceTime) = Seconds(131073) => verr = "server clock not fresh"

\* a response at the boundary, otherwise valid, has been accepted
C3_Witness ==
    /\ Validated
    /\ OtherRulesHold(resp, 4)
    /\ Sub64(resp.Time, resp.ReferenceTime) = Seconds(131072)
    /\ verr = NoError

\* twice the true value of RootDelay/2 + RootDispersion, in nanoseconds
TwiceLambda(r) == Add64(r.RootDelay, Mul64(r.RootDispersion, 2))

\* C4: with the other rules satisfied, RootDelay/2 + RootDispersion = 16 s is
\* accepted and every true value above 16 s, even by half a nanosecond, is
\* rejected as "invalid dispersion".
C4_DispersionBoundary ==
    Validated /\ OtherRulesHold(resp, 5) =>
        /\ TwiceLambda(resp) = Seconds(32) => verr = NoError
        /\ SGt(TwiceLambda(resp), Seconds(32)) => verr = "invalid dispersion"

\* ------------------------------------------------------------------------
\* Offset / RTT / root distance / causality: claims C5 - C8
\* ------------------------------------------------------------------------

\* the four instants, in nanoseconds since the epoch
T1 == ntpDuration(hdr.OriginTime)

T2 == ntpDuration(hdr.ReceiveTime)

T3 == ntpDuration(hdr.TransmitTime)

T4 == ntpDuration(dst)

\* (T4 - T1) - (T3 - T2), regrouped
RawRTT == Sub64(Add64(T4, T2), Add64(T1, T3))

\* C5: the round-trip time of the Response is >= 0; a negative raw value is
\* reported as zero, any other raw value as it is.
C5_RTTNonNegative ==
    pc = "parsed" =>
        /\ ~IsNeg(resp.RTT)
        /\ resp.RTT = IF IsNeg(RawRTT) THEN Zero64 ELSE RawRTT

\* a Response has been built from timestamps whose raw round trip is negative
C5_Witness ==
    /\ pc = "parsed"
    /\ IsNeg(RawRTT)
    /\ resp.RTT = Zero64

\* (T2 - T1) + (T3 - T4), regrouped
OffsetSum == Sub64(Add64(T2, T3), Add64(T1, T4))

IsExample(now, a, b, c, d) ==
    <<hdr.OriginTime, hdr.ReceiveTime, hdr.TransmitTime, dst>> = ExampleTimes(now, a, b, c, d)

\* C6: the clock offset is ((T2 - T1) + (T3 - T4)) / 2 in signed nanoseconds,
\* the quotient truncated toward zero; the two documented examples give
\* exactly 18 s and -0.5 s.
C6_Offset ==
    pc = "parsed" =>
        /\ LET twice == Mul64(resp.ClockOffset, 2)
               left  == Sub64(OffsetSum, twice)
           IN  \/ left = Zero64
               \/ left = U64(1) /\ ~IsNeg(OffsetSum)
               \/ left = Neg64(U64(1)) /\ IsNeg(OffsetSum)
        /\ \A now \in ExampleNows :
              /\ IsExample(now, 0, 20, 21, 5) => resp.ClockOffset = Seconds(18)
              /\ IsExample(now, 101, 102, 103, 105)
                    => resp.ClockOffset = Neg64(U64(500000000))

\* the second documented example has been computed
C6_Witness ==
    /\ pc = "parsed"
    /\ \E now \in ExampleNows : IsExample(now, 101, 102, 103, 105)
    /\ IsNeg(resp.ClockOffset)

\* C7 as stated: RootDistance = (RTT + RootDelay)/2 + RootDispersion for all
\* values, also when RTT + RootDelay is below 10 ms.
C7_RootDistanceAsStated ==
    pc = "parsed" =>
        resp.RootDistance
            = Add64(SDiv(Add64(resp.RTT, resp.RootDelay), 2), resp.RootDispersion)

\* C7 amended: RootDistance = max(RTT + RootDelay, 10 ms)/2 + RootDispersion;
\* below 10 ms of total delay that is 5 ms + RootDispersion.
C7_RootDistanceFloor ==
    pc = "parsed" =>
        LET total == Add64(resp.RTT, resp.RootDelay)
        IN  IF SLt(total, Mul64(U64(1000000), 10))
            THEN resp.RootDistance = Add64(U64(5000000), resp.RootDispersion)
            ELSE resp.RootDistance = Add64(SDiv(total, 2), resp.RootDispersion)

\* a Response with less than 10 ms of total delay, and a non-zero dispersion,
\* has been built
C7_Witness ==
    /\ pc = "parsed"
    /\ SLt(Add64(resp.RTT, resp.RootDelay), Mul64(U64(1000000), 10))
    /\ resp.RootDelay # Zero64
    /\ resp.RootDispersion # Zero64

Max64(a, b) == IF SLt(a, b) THEN b ELSE a

\* max(max(0, T1 - T2), max(0, T3 - T4))
MinErrorBound == Max64(Max64(Zero64, Sub64(T1, T2)), Max64(Zero64, Sub64(T3, T4)))

\* C8: the causality violation of the Response equals
\* max(max(0, T1 - T2), max(0, T3 - T4)) for every timestamp combination, and
\* is 0 exactly when T1 <= T2 and T3 <= T4.
C8_CausalityViolation ==
    pc = "parsedV1" =>
        /\ resp.CausalityViolation = MinErrorBound
        /\ resp.CausalityViolation = Zero64 <=> (SLe(T1, T2) /\ SLe(T3, T4))

\* ------------------------------------------------------------------------
\* The 64-bit codec: claim C9
\* ------------------------------------------------------------------------

\* the fraction is a whole number of nanoseconds: a multiple of 2^23
Representable(v) == v[1] = 0 /\ v[2] = 0 /\ v[3] % 128 = 0

\* C9: a fixed-point value whose fraction is exactly representable in
\* nanoseconds is reproduced by toNtpTime(v.Time()); and the instant decoded
\* from any fixed-point value is reproduced by each of 100 re-encodings.
C9_RoundTrip ==
    /\ (cpc = "encoded" /\ iter >= 1 /\ Representable(first)) => nowNtp = first
    /\ cpc = "decoded" => nowTime = startNow

\* the 100th decoding of a value that was not representable: the fixed-point
\* value has changed, the instant has not
C9_Witness ==
    /\ cpc = "decoded"
    /\ iter = Reencodings
    /\ ~Representable(first)
    /\ nowNtp # first
    /\ nowTime = startNow

\* ------------------------------------------------------------------------
\* The version check of a query: claim C10
\* ------------------------------------------------------------------------

\* the version the query was configured with is, after defaulting, out of range
\* (opt.Version holds the defaulted version once CheckVersion has run)
InvalidVersion == qpc # "start" /\ (opt.Version < 2 \/ opt.Version > 4)

\* C10: a query whose version, after defaulting 0 to 4, is outside 2..4 ends
\* with an error returned to the caller, with nothing resolved, no session
\* opened and nothing written; every request written carries version 2, 3 or 4.
C10_InvalidVersionReturnsError ==
    /\ InvalidVersion =>
          /\ outcome = "returned"
          /\ qerr # NoError
          /\ qresp = NoResponse
          /\ netlog = <<>>
          /\ con = "none"
          /\ wire = <<>>
    /\ \A i \in 1..Len(wire) : getVersion(wire[i].LiVnMode) \in 2..4

\* ------------------------------------------------------------------------
\* The checks on the reply: claims C11 - C12
\* ------------------------------------------------------------------------

\* the query has returned after a reply was read
ReturnedAfterReply == outcome = "returned" /\ reply # NoHeader

\* the transmit timestamp of the request that was written
WrittenTransmit == wire[1].TransmitTime

\* C11: a reply whose origin timestamp differs from the transmit timestamp
\* written in the request ends the query with "server response mismatch" and
\* no Response; a Response is returned only if the two values are equal.
C11_OriginMismatch ==
    ReturnedAfterReply =>
        /\ reply.OriginTime # WrittenTransmit
              => qerr = "server response mismatch" /\ qresp = NoResponse
        /\ qresp # NoResponse => reply.OriginTime = WrittenTransmit

\* a reply carrying the recorded send instant instead of the random value that
\* was written has been refused
C11_Witness ==
    /\ ReturnedAfterReply
    /\ reply.OriginTime = sendTime
    /\ reply.OriginTime # WrittenTransmit
    /\ qerr = "server response mismatch"
    /\ qresp = NoResponse

\* C12 as stated: a reply whose receive timestamp is greater than its transmit
\* timestamp ends the query with "server clock ticked backwards" and no Response,
\* whatever its origin timestamp; every reply that leads to a Response has
\* receive <= transmit.
C12_BackwardsAsStated ==
    ReturnedAfterReply =>
        /\ ULt(reply.TransmitTime, reply.ReceiveTime)
              => qerr = "server clock ticked backwards" /\ qresp = NoResponse
        /\ qresp # NoResponse => ~ULt(reply.TransmitTime, reply.ReceiveTime)

\* C12, amended: a reply whose receive timestamp is greater than its transmit
\* timestamp ends the query with an error and no Response; the error is "server
\* clock ticked backwards" when the reply's origin timestamp equals the transmit
\* timestamp written in the request, and "server response mismatch" when it
\* differs, the origin being checked first; every reply that leads to a Response
\* has receive <= transmit.
C12_ServerClockBackwards ==
    ReturnedAfterReply =>
        /\ ULt(reply.TransmitTime, reply.ReceiveTime)
              => /\ qerr # NoError
                 /\ qresp = NoResponse
                 /\ reply.OriginTime = WrittenTransmit
                       => qerr = "server clock ticked backwards"
                 /\ reply.OriginTime # WrittenTransmit
                       => qerr = "server response mismatch"
        /\ qresp # NoResponse => ~ULt(reply.TransmitTime, reply.ReceiveTime)

\* a reply with receive one second after transmit, and the right origin, has
\* been refused
C12_Witness ==
    /\ ReturnedAfterReply
    /\ reply.OriginTime = WrittenTransmit
    /\ ULt(reply.TransmitTime, reply.ReceiveTime)
    /\ qerr = "server clock ticked backwards"
    /\ qresp = NoResponse

\* ------------------------------------------------------------------------
\* Mode and transmit timestamp of the reply: claim C13
\* ------------------------------------------------------------------------

\* C13: a reply whose mode is not server, or whose transmit timestamp is zero,
\* ends the query with an error and no Response, also when its origin
\* timestamp matches the request.
C13_ModeAndZeroTransmit ==
    ReturnedAfterReply =>
        ( (getMode(reply.LiVnMode) # server \/ reply.TransmitTime = Zero64)
              => qerr # NoError /\ qresp = NoResponse )

\* ------------------------------------------------------------------------
\* The origin handed to the offset computation: claim C14
\* ------------------------------------------------------------------------

\* a Response has been returned
GotResponse == outcome = "returned" /\ qresp # NoResponse

\* C14: the RTT and ClockOffset of a Response are those of T1 = the recorded
\* send instant: the header handed to parseTime carries it as origin, whatever
\* the request carried; when the random source failed, the value written and
\* the recorded send instant are the same.
C14_OriginIsSendTime ==
    /\ GotResponse =>
          /\ recvMsg.OriginTime = sendTime
          /\ qresp.RTT = rtt(sendTime, reply.ReceiveTime, reply.TransmitTime, recvTime)
          /\ qresp.ClockOffset
                = offset(sendTime, reply.ReceiveTime, reply.TransmitTime, recvTime)
    /\ (wire # <<>> /\ rnd = "failed") => WrittenTransmit = sendTime
    /\ (wire # <<>> /\ rnd = "ok") => WrittenTransmit \in RandInputs

\* a Response whose request carried a random value, and whose offset is not the
\* one the random value would have given
C14_Witness ==
    /\ GotResponse
    /\ rnd = "ok"
    /\ WrittenTransmit # sendTime
    /\ reply.OriginTime = WrittenTransmit
    /\ qresp.ClockOffset
          # offset(WrittenTransmit, reply.ReceiveTime, reply.TransmitTime, recvTime)

\* ------------------------------------------------------------------------
\* TimeV: claim C15
\* ------------------------------------------------------------------------

\* the exchange of the call succeeded: getTime returned a header
ExchangeSucceeded ==
    /\ reply # NoHeader
    /\ ~originMismatch(reply, wire[1])
    /\ ~clockBackwards(reply)

\* C15: TimeV returns the reading of the local clock with every error, be it
\* of the exchange or of Validate, and the local time plus the clock offset only
\* when the exchange succeeded and Validate returned nil.
C15_TimeVLocalTimeOnError ==
    outcome = "returned" =>
        /\ qerr # NoError => tvTime = tvNow
        /\ qerr = NoError =>
              /\ ExchangeSucceeded
              /\ Validate(qresp) = NoError
              /\ tvTime = Add64(tvNow, qresp.ClockOffset)
        /\ ~ExchangeSucceeded => qerr # NoError
        /\ (ExchangeSucceeded /\ Validate(parseTime(recvMsg, recvTime)) # NoError)
              => qerr = Validate(parseTime(recvMsg, recvTime))

\* a reply was parsed to a Response with a non-zero offset, Validate refused
\* it, and TimeV returned the reading of the local clock
C15_Witness ==
    /\ outcome = "returned"
    /\ qresp # NoResponse
    /\ qresp.ClockOffset # Zero64
    /\ qerr = "kiss of death received"
    /\ tvTime = tvNow

\* ------------------------------------------------------------------------
\* The session is closed: claim C16
\* ------------------------------------------------------------------------

\* getTime has returned
GetTimeReturned == qpc \in {"gotTime", "done"} /\ outcome # "panicked"

\* C16: a session that was opened is closed exactly once before the query
\* returns, on every exit path; it is never closed while the query still uses
\* it, and no query returns with its session open.
C16_SessionClosedOnce ==
    /\ GetTimeReturned =>
          /\ con # "open"
          /\ Count(netlog, "close") = (IF con = "closed" THEN 1 ELSE 0)
          /\ con = "closed" => netlog[Len(netlog)] = "close"
    /\ ~GetTimeReturned => Count(netlog, "close") = 0
    /\ con = "open" => ~GetTimeReturned

\* the query has returned the error of SetTTL, the session closed
C16_Witness ==
    /\ outcome = "returned"
    /\ qerr = ErrTTL
    /\ con = "closed"
    /\ Count(netlog, "dial") = 1
    /\ Count(netlog, "close") = 1

\* ------------------------------------------------------------------------
\* Termination: claim C17
\* ------------------------------------------------------------------------

\* C17: every query eventually returns a Response or an error; the deadline
\* set on the session is the clock reading plus the timeout, 5 s when the
\* timeout is 0; a query that read no reply returns an error and no Response.
C17_Terminates ==
    /\ <>(outcome = "returned" /\ (qresp # NoResponse \/ qerr # NoError))
    /\ [](outcome = "returned" /\ reply = NoHeader => qerr # NoError /\ qresp = NoResponse)
    /\ [][qpc = "setDeadline" =>
            \E t \in ClockInputs :
               deadline' = Add64(t, IF opt.Timeout = Zero64 THEN Seconds(5) ELSE opt.Timeout)]_vars

\* ------------------------------------------------------------------------
\* Authentication: claims C18, C19
\* ------------------------------------------------------------------------

Verified == apc = "verified"

\* C18: verifyMAC accepts the buffer appendMAC produced on a 48-byte header with
\* the same algorithm, key and key id, and returns the authentication-failure
\* error once a single bit of the key, of the key id or of the header was changed
\* after the MAC was appended (the digest being collision-free).
C18_AuthRoundTrip ==
    /\ apc \in {"appended", "verified"} /\ tampered = "nothing" =>
          /\ Len(macBuf) = headerSize + 4 + algorithm(authOpt.Type).DigestSize
          /\ SubSeq(macBuf, 1, headerSize) \in HeaderInputs
          /\ verifyOpt = authOpt /\ verifyKey = authKey
    /\ Verified /\ tampered = "nothing" => authErr = NoError
    /\ Verified /\ tampered \in {"key", "keyID", "header"} => authErr = ErrAuthFailed

C18_Witness ==
    /\ Verified
    /\ tampered = "keyID"
    /\ authOpt.Type = AuthAES128
    /\ authErr = ErrAuthFailed

\* what the specification says of a textual key, stated on its own
IsHexDigit(c) == c \in (48..57) \cup (65..70) \cup (97..102)

HexDecodable(t) == Len(t) % 2 = 0 /\ \A i \in 1..Len(t) : IsHexDigit(t[i])

DigitValue(c) == IF c <= 57 THEN c - 48 ELSE IF c <= 70 THEN c - 55 ELSE c - 87

Candidate(t) ==
    IF Len(t) > 20
    THEN [i \in 1..(Len(t) \div 2) |-> 16 * DigitValue(t[2 * i - 1]) + DigitValue(t[2 * i])]
    ELSE t

MinKey(type) == IF type = AuthAES128 THEN 16 ELSE 4

MaxKey(type) == IF type = AuthAES128 THEN 16 ELSE 32

KeyRejected(o) ==
    \/ Len(o.Key) > 20 /\ ~HexDecodable(o.Key)
    \/ Len(Candidate(o.Key)) < MinKey(o.Type)

Prefix(k, n) == SubSeq(k, 1, IF Len(k) < n THEN Len(k) ELSE n)

KeyDecoded == apc \in {"decoded", "done", "appended"}

\* C19: a textual key longer than 20 characters is hex-decoded, a shorter one is
\* taken as its bytes; a failed hex decoding or a key shorter than the algorithm's
\* minimum gives ErrInvalidAuthKey and no key; a longer key is cut to the
\* algorithm's maximum, and two keys that agree on those bytes give the same MAC
\* and verify each other's.
C19_DecodeAuthKey ==
    /\ KeyDecoded /\ KeyRejected(authOpt) =>
          authErr = ErrInvalidAuthKey /\ authKey = NoKey /\ apc = "done"
    /\ KeyDecoded /\ ~KeyRejected(authOpt) =>
          /\ authErr = NoError
          /\ authKey = Prefix(Candidate(authOpt.Key), MaxKey(authOpt.Type))
    /\ apc = "appended" =>
          \A k \in KeyInputs :
             LET o == [authOpt EXCEPT !.Key = k]
             IN  /\ ~KeyRejected(o)
                 /\ Prefix(Candidate(k), MaxKey(o.Type)) =
                        Prefix(Candidate(authOpt.Key), MaxKey(o.Type))
                 => /\ appendMAC(SubSeq(macBuf, 1, headerSize), o, decodeAuthKey(o).key) = macBuf
                    /\ verifyMAC(macBuf, o, decodeAuthKey(o).key).err = NoError

C19_Witness ==
    /\ apc = "appended"
    /\ Len(authOpt.Key) > 20
    /\ Len(Candidate(authOpt.Key)) > MaxKey(authOpt.Type)
    /\ Len(authKey) = MaxKey(authOpt.Type)
    /\ \E k \in KeyInputs :
          /\ k # authOpt.Key
          /\ ~KeyRejected([authOpt EXCEPT !.Key = k])
          /\ Prefix(Candidate(k), MaxKey(authOpt.Type)) = authKey

\* ------------------------------------------------------------------------
\* Concurrent queries: claim C20
\* ------------------------------------------------------------------------

NotClose(c) == c # "close"

\* the resolver and transport calls a query made before it returned
CallsMade(q) == SelectSeq(q.netlog, NotClose)

\* what is said of a call that did not get as far as the transport behaviour
\* that decides its result
Unrecorded == [unrecorded |-> TRUE]

\* what the call q returns when it runs alone, is given r by the random source
\* and meets the transport behaviour and the clock readings recorded in q.  The
\* version is the one getTime uses (lines 778-783: 0 stands for defaultNtpVersion);
\* a call that was stopped before getTime came to its end has met only part of
\* the transport behaviour: alone it returns, with an error or a Response that
\* the part recorded does not decide.
runAlone(q, r) ==
    LET v == IF q.opt.Version = 0 THEN defaultNtpVersion ELSE q.opt.Version
        calls == CallsMade(q)
        x == [ZeroMsg EXCEPT
                 !.LiVnMode = setLeap(setVersion(setMode(0, client), v), LeapNotInSync),
                 !.TransmitTime = IF q.rnd = "failed" THEN q.sendTime ELSE r]
        last == IF calls = <<>> THEN "none" ELSE calls[Len(calls)]
        err == CASE last \in {"resolve", "resolveLocal"} -> ErrResolve
                 [] last = "dial" -> ErrDial
                 [] last = "setTTL" -> ErrTTL
                 [] last = "write" -> ErrWrite
                 [] last = "read" /\ q.reply = NoHeader -> ErrRead
                 [] last = "read" /\ q.reply # NoHeader ->
                       IF originMismatch(q.reply, x) THEN ErrMismatch
                       ELSE IF clockBackwards(q.reply) THEN ErrBackwards
                       ELSE NoError
                 [] OTHER -> NoError
    IN  IF v < 2 \/ v > 4
        THEN [outcome |-> "panicked", qerr |-> PanicVersion, qresp |-> NoResponse]
        ELSE IF q.qpc \notin {"gotTime", "done"}
        THEN [outcome |-> "returned", qerr |-> Unrecorded, qresp |-> Unrecorded]
        ELSE [outcome |-> "returned",
              qerr |-> err,
              qresp |-> IF err = NoError
                        THEN parseTime(correctOrigin(q.reply, q.sendTime), q.recvTime)
                        ELSE NoResponse]

Ended(q) == q.outcome # "running"

\* C20: in every interleaving of the steps of two queries each query ends with the
\* Response or error it would have had running alone with the same transport
\* behaviour and clock readings, and no step writes a package-level variable.
C20_NoInterference ==
    /\ pkg = PackageState
    /\ turn # 0 =>
          \A q \in {Locals, other} :
             Ended(q) =>
                \E r \in RandInputs :
                   [outcome |-> q.outcome, qerr |-> q.qerr, qresp |-> q.qresp] = runAlone(q, r)

\* ------------------------------------------------------------------------
\* Order of the transport operations: claim C21
\* ------------------------------------------------------------------------

IsTransportCall(c) == c \notin {"resolve", "resolveLocal"}

\* the calls made on the transport, in order
TransportCalls == SelectSeq(netlog, IsTransportCall)

\* the place of a call in open, set TTL, set deadline, write, read, close
CallRank(c) ==
    CASE c = "dial" -> 1
      [] c = "setTTL" -> 2
      [] c = "setDeadline" -> 3
      [] c = "write" -> 4
      [] c = "read" -> 5
      [] c = "close" -> 6

\* the last call made before the deferred close
LastCall ==
    LET calls == SelectSeq(netlog, NotClose)
    IN  IF calls = <<>> THEN "none" ELSE calls[Len(calls)]

\* C21: the transport calls of a query come in the order open, set TTL (when
\* configured), set deadline, write, read, close, each at most once; a query that
\* reaches the dial dials exactly once; the request is written once and after
\* the deadline is set; the read follows a successful write; the destination
\* time is stamped after a completed read only; the failing call is the last one
\* before the close; a failed dial returns its error and no Response.
C21_TransportOrder ==
    /\ \A i \in 1..Len(TransportCalls), j \in 1..Len(TransportCalls) :
          i < j => CallRank(TransportCalls[i]) < CallRank(TransportCalls[j])
    /\ (con # "none" \/ qerr = ErrDial) => Count(netlog, "dial") = 1
    /\ Count(netlog, "setTTL") = 1 => opt.TTL # 0
    /\ Count(netlog, "setDeadline") = 1 /\ opt.TTL # 0 => Count(netlog, "setTTL") = 1
    /\ Len(wire) <= 1
    /\ Len(wire) = 1 => Count(netlog, "write") = 1 /\ Count(netlog, "setDeadline") = 1
                        /\ wire[1] = xmitMsg
    /\ Count(netlog, "write") = 1 => Count(netlog, "setDeadline") = 1 /\ deadline # Zero64
    /\ Count(netlog, "read") = 1 => Len(wire) = 1
    /\ recvTime # Zero64 => Count(netlog, "read") = 1 /\ reply # NoHeader
    /\ qerr = ErrTTL => LastCall = "setTTL"
    /\ qerr = ErrWrite => LastCall = "write" /\ wire = <<>>
    /\ qerr = ErrRead => LastCall = "read" /\ reply = NoHeader /\ recvTime = Zero64
    /\ qerr = ErrDial =>
          /\ TransportCalls = <<"dial">>
          /\ con = "none"
          /\ outcome = "returned" => qresp = NoResponse
    /\ GetTimeReturned /\ qerr = NoError =>
          TransportCalls = (IF opt.TTL # 0 THEN <<"dial", "setTTL">> ELSE <<"dial">>)
                              \o <<"setDeadline", "write", "read", "close">>

\* a query whose read failed has returned: dialled, written and read once each
C21_Witness ==
    /\ outcome = "returned"
    /\ qerr = ErrRead
    /\ qresp = NoResponse
    /\ TransportCalls = <<"dial", "setTTL", "setDeadline", "write", "read", "close">>

\* ------------------------------------------------------------------------
\* Rounding of the conversions: claims C22, C23
\* ------------------------------------------------------------------------

\* 2^31, half a unit of the 32-bit fraction scaled by 2^32
Half32 == ShlBytes(U64(128), 3)

\* the nanoseconds nearest to the fixed-point value t, ties upward
NearestDuration(t) ==
    Add64(Mul64(ShrBytes(t, 4), nanoPerSec),
          ShrBytes(Add64(Mul64(Low32(t), nanoPerSec), Half32), 4))

\* the fixed-point value nearest to the instant t, ties upward
NearestNtpTime(t) ==
    LET sec == Div64(t, nanoPerSec)
        rem == Sub64(t, Mul64(sec, nanoPerSec))
    IN  Add64(ShlBytes(sec, 4),
              Div64(Add64(ShlBytes(rem, 4), U64(nanoPerSec \div 2)), nanoPerSec))

\* C22: both conversions round to the nearest representable unit, ties upward:
\* the instant decoded from a fixed-point value is the nearest nanosecond, and
\* the fixed-point value encoded from an instant has the nearest fraction.
C22_RoundsToNearest ==
    /\ cpc = "decoded" => nowTime = NearestDuration(nowNtp)
    /\ cpc = "encoded" /\ iter >= 1 => nowNtp = NearestNtpTime(nowTime)

\* the nanoseconds nearest to the 16.16 fixed-point value t, ties upward
NearestShortDuration(t) ==
    Add64(Mul64(ShrBytes(t, 2), nanoPerSec),
          ShrBytes(Add64(Mul64(Low16(t), nanoPerSec), U64(32768)), 2))

\* C23: ntpTimeShort.Duration is the high 16 bits in seconds plus the low 16
\* bits scaled by 10^9 / 2^16 and rounded to the nearest nanosecond, as for the
\* root delay and root dispersion of a parsed header; 0x00000001 gives 15259 ns,
\* 0x00008000 500 ms, 0x0000ff80 1 s - 1953125 ns and 0xffff0000 65535 s.
C23_ShortDurationNearest ==
    pc \in {"parsed", "parsedV1"} =>
       /\ resp.RootDelay = NearestShortDuration(hdr.RootDelay)
       /\ resp.RootDispersion = NearestShortDuration(hdr.RootDispersion)
       /\ shortDuration(U64(1)) = U64(15259)
       /\ shortDuration(U64(32768)) = U64(500000000)
       /\ shortDuration(U64(65408)) = Sub64(Second, U64(1953125))
       /\ shortDuration(ShlBytes(U64(65535), 2)) = Seconds(65535)

\* ------------------------------------------------------------------------
\* The era rollover: claim C24
\* ------------------------------------------------------------------------

\* the constant that, added modulo 2^64, moves second 86401 to second 0 of the
\* next era: timestamps of second 86400 land in the last second before the
\* rollover, those of second 86401 in the first second after it
EraShift == Neg64(NtpTime(U64(86401), Zero64))

Shifted(t) == Add64(t, EraShift)

\* C24: adding one constant modulo 2^64 to T1..T4 leaves rtt and offset as they
\* are, also when some of the four wrap past 2^64 and others do not; and a reply
\* that is in order stays in order when its receive timestamp lies before the
\* rollover and its transmit timestamp after it.
C24_EraRollover ==
    pc = "parsed" =>
       /\ rtt(Shifted(hdr.OriginTime), Shifted(hdr.ReceiveTime), Shifted(hdr.TransmitTime),
              Shifted(dst)) = resp.RTT
       /\ offset(Shifted(hdr.OriginTime), Shifted(hdr.ReceiveTime),
                 Shifted(hdr.TransmitTime), Shifted(dst)) = resp.ClockOffset
       /\ ~clockBackwards(hdr) =>
             ~clockBackwards([hdr EXCEPT !.ReceiveTime = Shifted(hdr.ReceiveTime),
                                         !.TransmitTime = Shifted(hdr.TransmitTime)])

\* ------------------------------------------------------------------------
\* The header byte: claim C25
\* ------------------------------------------------------------------------

LeapBits(b) == b \div 64

VersionBits(b) == (b \div 8) % 8

ModeBits(b) == b % 8

\* C25: each setter of the header byte changes its own bits only: the two other
\* sub-fields are as before, the field set reads back the value set (getLeap for
\* the leap), and the three setters commute on every starting byte.
C25_SettersKeepOtherFields ==
    /\ lvSet[1] = "leap" =>
          /\ getLeap(lvByte) = lvSet[2] /\ LeapBits(lvByte) = lvSet[2]
          /\ VersionBits(lvByte) = VersionBits(lvBefore)
          /\ ModeBits(lvByte) = ModeBits(lvBefore)
    /\ lvSet[1] = "version" =>
          /\ VersionBits(lvByte) = lvSet[2]
          /\ LeapBits(lvByte) = LeapBits(lvBefore)
          /\ ModeBits(lvByte) = ModeBits(lvBefore)
    /\ lvSet[1] = "mode" =>
          /\ ModeBits(lvByte) = lvSet[2]
          /\ LeapBits(lvByte) = LeapBits(lvBefore)
          /\ VersionBits(lvByte) = VersionBits(lvBefore)
    /\ lvSteps = 0 =>
          /\ \A li \in LeapValues, v \in VersionValues :
                setLeap(setVersion(lvByte, v), li) = setVersion(setLeap(lvByte, li), v)
          /\ \A li \in LeapValues, md \in ModeValues :
                setLeap(setMode(lvByte, md), li) = setMode(setLeap(lvByte, li), md)
          /\ \A v \in VersionValues, md \in ModeValues :
                setVersion(setMode(lvByte, md), v) = setMode(setVersion(lvByte, v), md)

\* version 3 set in a byte whose version bits were all ones, after another setter
C25_Witness ==
    /\ lvSteps = 2
    /\ lvSet = <<"version", 3>>
    /\ VersionBits(lvBefore) = 7
    /\ LeapBits(lvBefore) = 3
    /\ lvByte = lvBefore - 32

\* ------------------------------------------------------------------------
\* verifyMAC on buffers of any length: claims C26, C27, C29
\* ------------------------------------------------------------------------

\* the bytes behind the header in the buffer verifyMAC was given
Remain == Len(verifyBuf) - headerSize

\* the digest length the specification names for each algorithm
ExpectedDigestLen == IF verifyOpt.Type \in {AuthMD5, AuthAES128} THEN 16 ELSE 20

RejectedOnLength == verifySteps = <<"len">>

\* C26 as stated: verifyMAC rejects a buffer on its length alone exactly when
\* (len(buf) - 48) is not a multiple of 4 or is smaller than the expected digest
\* length (16 for MD5/AES-CMAC, 20 for SHA1/SHA256/SHA512); a buffer whose
\* (len(buf) - 48) is a multiple of 4 and at least that length passes the length test.
C26_LengthAsStated ==
    Verified => (RejectedOnLength <=> (Remain % 4 # 0 \/ Remain < ExpectedDigestLen))

\* C26, amended: verifyMAC rejects a buffer on its length alone, before the key id
\* is read and before any digest is computed, exactly when (len(buf) - 48) is not a
\* multiple of 4 or is smaller than 4 + the digest length (the key id and the
\* digest: 20 for MD5/AES-CMAC, 24 for SHA1/SHA256/SHA512); the rejection returns
\* ErrAuthFailed, and every other buffer has its length tested first and its key id
\* read next.
C26_LengthCheck ==
    Verified =>
        /\ RejectedOnLength <=> (Remain % 4 # 0 \/ Remain < 4 + ExpectedDigestLen)
        /\ RejectedOnLength => authErr = ErrAuthFailed /\ macBuf = verifyBuf
        /\ ~RejectedOnLength => SubSeq(verifySteps, 1, 2) = <<"len", "keyID">>
        /\ ExpectedDigestLen = algorithm(verifyOpt.Type).DigestSize

C26_Witness ==
    /\ Verified
    /\ tampered = "length"
    /\ verifyOpt.Type = AuthMD5
    /\ Remain = ExpectedDigestLen
    /\ RejectedOnLength
    /\ authErr = ErrAuthFailed

\* C27: every rejection by verifyMAC returns the one error ErrAuthFailed, whether
\* the length, the key id or the digest was found wrong, so two buffers rejected
\* for different reasons return the same error.
C27_OneError ==
    Verified =>
        /\ authErr \in {NoError, ErrAuthFailed}
        /\ tampered \in {"length", "keyID", "digest"} => authErr = ErrAuthFailed
        /\ tampered = "keyID" /\ Remain % 4 = 0 => verifySteps = <<"len", "keyID">>
        /\ tampered = "digest" => Len(verifySteps) = 4

C27_Witness ==
    /\ Verified
    /\ tampered = "digest"
    /\ verifySteps = <<"len", "keyID", "CalcDigest", "compare">>
    /\ authErr = ErrAuthFailed
    /\ Remain > 4 + ExpectedDigestLen

\* C29: verifyMAC leaves the bytes of the buffer as they were, for every
\* algorithm and every length of the buffer, and accepts a buffer that was
\* authenticated with the same algorithm, key and key id and arrives unchanged,
\* whatever the length of the authenticated payload.
C29_BufferUnchanged ==
    Verified =>
        /\ macBuf = verifyBuf
        /\ tampered = "nothing" => authErr = NoError
\* ------------------------------------------------------------------------
\* The order of the local timestamps: claim C28
\* ------------------------------------------------------------------------

\* C28: whenever getTime returns no error, the header it returns satisfies
\* OriginTime <= destination time (the local receive time), for every behaviour
\* of the local clock between the two readings, a clock stepped backwards included.
C28_OriginBeforeDestination ==
    (qpc \in {"gotTime", "done"} /\ qerr = NoError) => ~ULt(recvTime, recvMsg.OriginTime)
\* ------------------------------------------------------------------------
\* The request and the local clock: claim C30
\* ------------------------------------------------------------------------

\* C30: when the random source succeeded, the request written is determined by
\* the options and the random value alone: mode client, the configured version,
\* leap not-in-sync, the random value as transmit timestamp and every other
\* field zero, whatever the local clock read; one request is written, and no
\* field of it is the send time read from the clock.
C30_RequestHidesClock ==
    (wire # <<>> /\ rnd = "ok") =>
        /\ Len(wire) = 1
        /\ \E r \in RandInputs :
              wire[1] = [ZeroMsg EXCEPT
                            !.LiVnMode = LeapNotInSync * 64 + opt.Version * 8 + client,
                            !.TransmitTime = r]
        /\ WrittenTransmit # sendTime

\* a request written after the clock read its later value
C30_Witness ==
    /\ wire # <<>>
    /\ rnd = "ok"
    /\ sendTime = toNtpTime(Seconds(86400 + MaxClock))
    /\ opt.Version = 3
    /\ wire[1].LiVnMode = 219
====
